---- MODULE Spec2Model ----
(***************************************************************************)
(* State-machine model of the game-state controller of the Dual-AI         *)
(* Detective front end (frontend/src/App.js): the React state of the App   *)
(* component, its event handlers, the continuations of its asynchronous    *)
(* backend calls, its notification timers and its localStorage save store. *)
(*                                                                         *)
(* Conventions.                                                            *)
(*  - A JavaScript string that the code trims or tests for emptiness is a  *)
(*    sequence of one-character strings; "" is <<>>.                       *)
(*  - A JavaScript object is a TLA+ record/function; a property that is    *)
(*    missing (or null, which safeGet's ?? treats alike) is a key that is  *)
(*    not in its DOMAIN.                                                   *)
(*  - null for a state variable that holds an object is the record NoCase  *)
(*    / NoCharacter; for a scalar it is the string Null.                   *)
(*  - An async handler is two steps: the synchronous part up to the fetch  *)
(*    (it records the closure's captured values in `requests`) and the     *)
(*    continuation that runs when the response arrives.                    *)
(*  - Pure presentation flags that no handler reads (showContextPanel,     *)
(*    showVisualGallery, imageLoadingStates) are not part of the state.    *)
(***************************************************************************)
EXTENDS Integers, Sequences, FiniteSets, TLC

VARIABLES
    currentCase,                \* useState(null)   App.js:75
    sessionId,                  \* useState(null)   App.js:76
    loading,                    \* useState(false)  App.js:77
    activeCharacter,            \* useState(null)   App.js:80
    question,                   \* useState('')     App.js:81
    conversations,              \* useState({})     App.js:82
    selectedEvidence,           \* useState([])     App.js:83
    theory,                     \* useState('')     App.js:84
    analysis,                   \* useState('')     App.js:85
    investigationNotes,         \* useState('')     App.js:86
    gameState,                  \* useState('menu') App.js:89
    showSaveLoad,               \* useState(false)  App.js:91
    newCharacterNotifications,  \* useState([])     App.js:94
    visualSceneNotifications,   \* useState([])     App.js:95
    savedGames,                 \* useState([])     App.js:100
    localStorage,               \* the item 'detective_saved_games'
    mounted,                    \* the mount effect (App.js:103) has run
    requests,                   \* fetches in flight, with what their closure captured
    timers,                     \* armed setTimeout callbacks, with the time left
    clock,                      \* Date.now(): it advances between two saves
    notificationSeq,            \* source of the fresh Date.now() + Math.random() ids
    lastEvent,                  \* history: the handler step that ran last
    lastAlert,                  \* history: the text that step passed to alert()
    toggleParity,               \* history: per evidence id, toggles mod 2 since selectionBase
    selectionBase,              \* history: the selection as last set by generate/load
    savedFrom,                  \* history: per save id, the controller state saveGame ran in
    questionsSent               \* history: questionCharacter requests sent so far

vars == << currentCase, sessionId, loading, activeCharacter, question,
           conversations, selectedEvidence, theory, analysis,
           investigationNotes, gameState, showSaveLoad,
           newCharacterNotifications, visualSceneNotifications, savedGames,
           localStorage, mounted, requests, timers, clock, notificationSeq,
           lastEvent, lastAlert, toggleParity, selectionBase, savedFrom,
           questionsSent >>

-----------------------------------------------------------------------------
(* Bounds of the model *)

MaxSaves == 1            \* saveGame calls in one run (clock values handed out)
MaxQuestions == 2        \* questionCharacter requests sent in one run
MaxInFlight == 1         \* requests of a handler and polls in flight at once

(* Program constants *)

CharacterDismissDelay == 10000   \* setTimeout(..., 10000)  App.js:370
(* A faulty variant: the scene timer is given the delay of the other one. *)
SceneDismissDelayOfCharacters == CharacterDismissDelay

SceneDismissDelay == 8000        \* setTimeout(..., 8000)   App.js:397

(* A faulty variant: the polls follow the delay of the scene timer. *)
PollIntervalOfScenes == SceneDismissDelay

PollInterval == 10000            \* setInterval(refreshCaseData, 10000)   App.js:224
PollTimeout == 120000            \* setTimeout(..., 120000)   App.js:227-230

-----------------------------------------------------------------------------
(* Values *)

Null == "null"
NoCase == [id |-> Null]
NoCharacter == [id |-> Null]
NoAlert == <<>>
NoEvent == [op |-> "none", arg |-> Null, outcome |-> "none"]
EmptyMap == [k \in {} |-> << >>]            \* the object {}

Range(s) == { s[i] : i \in DOMAIN s }

(* String.prototype.trim: strips the white space at both ends. *)
IsSpace(c) == c = " "

RECURSIVE trimStart(_)
trimStart(s) == IF s # <<>> /\ IsSpace(Head(s)) THEN trimStart(Tail(s)) ELSE s

RECURSIVE trimEnd(_)
trimEnd(s) ==
    IF s # <<>> /\ IsSpace(s[Len(s)]) THEN trimEnd(SubSeq(s, 1, Len(s) - 1)) ELSE s

trim(s) == trimEnd(trimStart(s))

(* safeGet(obj, key, defaultValue): obj[key] ?? defaultValue, for the       *)
(* single-key paths the handlers use.                                      *)
safeGet(obj, key, defaultValue) ==
    IF key \in DOMAIN obj THEN obj[key] ELSE defaultValue

has(obj, key) == key \in DOMAIN obj

-----------------------------------------------------------------------------
(* What the backend can send.  The backend is not part of the repository;  *)
(* the sets below hold one representative of every kind of response that   *)
(* the handlers tell apart.                                                *)

LadyGray == [id |-> "lady_gray", name |-> "Lady Gray"]
Butler   == [id |-> "butler", name |-> "Butler"]
Maid     == [id |-> "maid", name |-> "Maid"]
Gardener == [id |-> "gardener", name |-> "Gardener"]

(* A freshly generated case whose crime-scene image is still being made. *)
CaseStudy ==
    [ id |-> "c1", title |-> "The Study",
      characters |-> << LadyGray, Butler >>,
      evidence |-> << [id |-> "e1"], [id |-> "e2"] >>,
      crime_scene_image_url |-> Null,
      visual_scenes |-> << >> ]

(* A case that already carries its crime-scene image. *)
CaseManor ==
    [ id |-> "c2", title |-> "The Manor",
      characters |-> << Maid >>,
      evidence |-> << [id |-> "e3"] >>,
      crime_scene_image_url |-> "manor.png",
      visual_scenes |-> << >> ]

SceneLibrary == [id |-> "scene1", title |-> "The library", image_url |-> "library.png"]

DiscoveryGardener ==
    [ character |-> Gardener, discovered_through |-> "Lady Gray",
      context |-> "mentioned the gardener" ]

(* A discovery entry that carries no character. *)
DiscoveryNobody == [ discovered_through |-> "Lady Gray" ]

NetworkError == [kind |-> "network_error"]

HttpError(text) ==
    [ kind |-> "http", ok |-> FALSE, status |-> "500",
      statusText |-> "Internal Server Error", text |-> text ]

HttpOk(body) ==
    [ kind |-> "http", ok |-> TRUE, status |-> "200", statusText |-> "OK",
      body |-> body ]

JsonInvalid == [json |-> "invalid"]       \* response.json() rejects
JsonNull == [json |-> "null"]             \* the body is the JSON value null
JsonScalar == [json |-> "scalar"]         \* a JSON string, number or boolean
JsonObject(value) == [json |-> "object", value |-> value]

FailureResponses ==
    { NetworkError, HttpError(<< >>), HttpError(<<"backend down">>),
      HttpOk(JsonInvalid), HttpOk(JsonNull), HttpOk(JsonScalar) }

GeneratedStudy == HttpOk(JsonObject([case |-> CaseStudy, session_id |-> "s1"]))

GeneratedManor == HttpOk(JsonObject([case |-> CaseManor]))

GenerateResponses ==
    FailureResponses \cup
    { HttpOk(JsonObject([session_id |-> "s0"])),
      HttpOk(JsonObject([case |-> [title |-> "Untitled"], session_id |-> "s0"])),
      GeneratedStudy, GeneratedManor }

PlainAnswer ==
    HttpOk(JsonObject([character_name |-> "Lady Gray", response |-> <<"r">>]))

NobodyAnswer ==
    HttpOk(JsonObject([new_characters_discovered |-> << DiscoveryNobody >>]))

GardenerAnswer ==
    HttpOk(JsonObject([response |-> <<"r">>,
                       new_characters_discovered |-> << DiscoveryGardener >>]))

GardenerTwiceAnswer ==
    HttpOk(JsonObject([response |-> <<"r">>,
                       new_characters_discovered |->
                           << DiscoveryGardener, DiscoveryNobody, DiscoveryGardener >>]))

SceneAnswer ==
    HttpOk(JsonObject([response |-> <<"r">>,
                       visual_scene_generated |-> SceneLibrary]))

CellarAnswer ==
    HttpOk(JsonObject([response |-> <<"r">>,
                       visual_scene_generated |->
                           [ id |-> "scene2", title |-> "The cellar",
                             image_url |-> "cellar.png" ]]))

GardenerAndSceneAnswer ==
    HttpOk(JsonObject([response |-> <<"r">>,
                       new_characters_discovered |-> << DiscoveryGardener >>,
                       visual_scene_generated |-> SceneLibrary]))

(* The responses that the conversation handling tells apart. *)
ConversationResponses ==
    { NetworkError, HttpError(<< >>), HttpOk(JsonNull), PlainAnswer,
      NobodyAnswer, GardenerAnswer }

(* The responses that the discovery handling tells apart. *)
DiscoveryResponses == { NetworkError, NobodyAnswer, GardenerTwiceAnswer }

(* The responses that the scene handling tells apart. *)
SceneResponses == { PlainAnswer, SceneAnswer }

(* GET /api/cases/{id}: the case as the backend holds it by now, with the  *)
(* image, a scene and a further character that the client has not seen.    *)
StudyWithScene == [CaseStudy EXCEPT !.visual_scenes = << SceneLibrary >>]
StudyWithImage ==
    [CaseStudy EXCEPT !.crime_scene_image_url = "study.png",
                      !.visual_scenes = << SceneLibrary >>,
                      !.characters = @ \o << Gardener >>]

FetchedNothingNew == HttpOk(JsonObject([case |-> CaseStudy]))
FetchedScene == HttpOk(JsonObject([case |-> StudyWithScene]))
FetchedImage == HttpOk(JsonObject([case |-> StudyWithImage]))
FetchedNoCase == HttpOk(JsonObject([crime_scene_image_url |-> "study.png"]))

RefreshResponses ==
    { NetworkError, HttpError(<< >>), HttpOk(JsonInvalid), HttpOk(JsonNull),
      FetchedNoCase, FetchedNothingNew, FetchedScene, FetchedImage }

AnalyzeResponses ==
    { NetworkError, HttpError(<< >>), HttpOk(JsonInvalid), HttpOk(JsonNull),
      HttpOk(JsonObject([analysis |-> <<"v">>])) }

(* What the user can type. *)
QuestionInputs == { << >>, <<" ", "q", " ">> }
TheoryInputs == { << >>, <<"t", " ">> }
NotesInputs == { << >>, <<"n">> }
Blank == { <<" ">> }                                \* white space only
PromptInputs == { << >>, <<" ">>, <<" ", "A">> }    \* window.prompt; Cancel is << >>

-----------------------------------------------------------------------------
(* handleApiResponse, App.js:34-56.  The result is what the await yields:  *)
(* the parsed body, or the error that is thrown.                           *)

Thrown(message) == [ok |-> FALSE, message |-> message]
Returned(data) == [ok |-> TRUE, data |-> data]

(* A faulty variant: the text of the error body is not looked at. *)
handleApiResponseStatusOnly(response) ==
    IF ~response.ok
    THEN Thrown(<<"HTTP ", response.status, ": ", response.statusText>>)
    ELSE IF response.body.json = "invalid"
    THEN Thrown(<<"Unexpected token in JSON">>)
    ELSE IF response.body.json \in {"null", "scalar"}
    THEN Thrown(<<"Invalid response format from server">>)
    ELSE Returned(response.body.value)

handleApiResponse(response) ==
    IF ~response.ok
    THEN Thrown(IF response.text # << >>
                THEN response.text
                ELSE <<"HTTP ", response.status, ": ", response.statusText>>)
    ELSE IF response.body.json = "invalid"
    THEN Thrown(<<"Unexpected token in JSON">>)
    ELSE IF response.body.json \in {"null", "scalar"}
    THEN Thrown(<<"Invalid response format from server">>)
    ELSE Returned(response.body.value)

(* A faulty variant: a fetch that fails counts as an empty answer. *)
fetchThenHandleOffline(response) ==
    IF response.kind = "network_error"
    THEN Returned(EmptyMap)
    ELSE handleApiResponse(response)

(* await fetch(...) followed by await handleApiResponse(response): a        *)
(* network failure rejects the fetch itself.                               *)
fetchThenHandle(response) ==
    IF response.kind = "network_error"
    THEN Thrown(<<"Failed to fetch">>)
    ELSE handleApiResponse(response)

-----------------------------------------------------------------------------
(* localStorage and JSON *)

JSONstringify(value) == [json |-> value]
Corrupted == [garbage |-> "{not json"]

(* JSON.parse: the value, or a SyntaxError *)
JSONparse(text) ==
    IF "json" \in DOMAIN text THEN Returned(text.json) ELSE Thrown(<<"SyntaxError">>)

Absent == [present |-> FALSE]
Stored(text) == [present |-> TRUE, text |-> text]

(* Records that earlier sessions of the program saved. *)
PriorSaveA ==
    [ id |-> 1, name |-> <<"A">>, timestamp |-> 1,
      currentCase |-> CaseManor, sessionId |-> Null,
      conversations |-> EmptyMap, investigationNotes |-> << >>,
      selectedEvidence |-> <<"e3">>, theory |-> << >>, analysis |-> << >>,
      gameState |-> "playing" ]

(* A save made late in an investigation, after an analysis. *)
PriorSaveB ==
    [ id |-> 2, name |-> <<"B">>, timestamp |-> 2,
      currentCase |-> CaseStudy, sessionId |-> "s1",
      conversations |->
          [ k \in {"butler"} |->
              << [question |-> <<"q">>, response |-> <<"r">>, timestamp |-> 1] >> ],
      investigationNotes |-> <<"n">>,
      selectedEvidence |-> <<"e1">>, theory |-> <<"t">>, analysis |-> <<"v">>,
      gameState |-> "playing" ]

PriorSaves == << PriorSaveA, PriorSaveB >>

(* A record that holds the required fields only. *)
BareSave ==
    [ id |-> 0, name |-> <<"O">>, timestamp |-> 0,
      currentCase |-> CaseManor, sessionId |-> "s0" ]

InitialStorage == { Absent, Stored(Corrupted), Stored(JSONstringify(PriorSaves)) }

EvidenceIds == {"e1", "e2", "e3"}

-----------------------------------------------------------------------------
(* Groups of variables *)

investigation ==
    << conversations, selectedEvidence, theory, analysis, investigationNotes >>
notifications ==
    << newCharacterNotifications, visualSceneNotifications, timers, notificationSeq >>
saveStore == << savedGames, localStorage, clock, savedFrom >>
selectionHistory == << toggleParity, selectionBase, questionsSent >>

(* Everything the program itself holds: all variables but the history ones. *)
programState ==
    << currentCase, sessionId, loading, activeCharacter, question,
       conversations, selectedEvidence, theory, analysis, investigationNotes,
       gameState, showSaveLoad, newCharacterNotifications,
       visualSceneNotifications, savedGames, localStorage, requests, timers >>

(* The snapshot that a save record is meant to carry. *)
controllerState ==
    << currentCase, sessionId, conversations, investigationNotes,
       selectedEvidence, theory, analysis, gameState >>

(* The history of a step: the handler, what it was given, how it ended and *)
(* what it told the user.                                                  *)
DidOn(op, arg, outcome, alert) ==
    /\ lastEvent' = [op |-> op, arg |-> arg, outcome |-> outcome]
    /\ lastAlert' = alert

Did(op, outcome, alert) == DidOn(op, Null, outcome, alert)

NoParity == [e \in EvidenceIds |-> 0]

Init ==
    /\ currentCase = NoCase
    /\ sessionId = Null
    /\ loading = FALSE
    /\ activeCharacter = NoCharacter
    /\ question = << >>
    /\ conversations = EmptyMap
    /\ selectedEvidence = << >>
    /\ theory = << >>
    /\ analysis = << >>
    /\ investigationNotes = << >>
    /\ gameState = "menu"
    /\ showSaveLoad = FALSE
    /\ newCharacterNotifications = << >>
    /\ visualSceneNotifications = << >>
    /\ savedGames = << >>
    /\ localStorage \in InitialStorage
    /\ mounted = FALSE
    /\ requests = << >>
    /\ timers = << >>
    /\ clock = Len(PriorSaves) + 1
    /\ notificationSeq = 1
    /\ lastEvent = NoEvent
    /\ lastAlert = NoAlert
    /\ toggleParity = NoParity
    /\ selectionBase = << >>
    /\ savedFrom = EmptyMap
    /\ questionsSent = 0

-----------------------------------------------------------------------------
(* The mount effect, App.js:103-114: load the saved games. *)

(* A faulty variant: the corrupted item is left in storage. *)
loadSavedGamesKeepsCorrupted ==
    /\ ~mounted
    /\ mounted' = TRUE
    /\ IF localStorage.present /\ JSONparse(localStorage.text).ok
       THEN /\ savedGames' = JSONparse(localStorage.text).data
            /\ Did("loadSavedGames", "parsed", NoAlert)
       ELSE /\ UNCHANGED savedGames
            /\ Did("loadSavedGames", "absent", NoAlert)
    /\ UNCHANGED << localStorage, currentCase, sessionId, loading,
                    activeCharacter, question, investigation, gameState,
                    showSaveLoad, notifications, requests, clock, savedFrom,
                    selectionHistory >>


loadSavedGames ==
    /\ ~mounted
    /\ mounted' = TRUE
    /\ IF localStorage.present
       THEN LET parsed == JSONparse(localStorage.text)
            IN  IF parsed.ok
                THEN /\ savedGames' = parsed.data
                     /\ UNCHANGED localStorage
                     /\ Did("loadSavedGames", "parsed", NoAlert)
                ELSE /\ localStorage' = Absent          \* removeItem
                     /\ UNCHANGED savedGames
                     /\ Did("loadSavedGames", "corrupted", NoAlert)
       ELSE /\ UNCHANGED << savedGames, localStorage >>
            /\ Did("loadSavedGames", "absent", NoAlert)
    /\ UNCHANGED << currentCase, sessionId, loading, activeCharacter, question,
                    investigation, gameState, showSaveLoad, notifications,
                    requests, clock, savedFrom, selectionHistory >>

-----------------------------------------------------------------------------
(* The auto-refresh effect, App.js:221-237.  It runs after a render in     *)
(* which one of its dependencies has changed: the timers of the previous   *)
(* run are cleared and, for a case with an id and without a crime-scene    *)
(* image, an interval and a timeout are armed.  The interval calls the     *)
(* refreshCaseData of that render, which sees the case of that render.     *)

autoRefreshDeps(case) ==
    << safeGet(case, "id", Null), safeGet(case, "crime_scene_image_url", Null) >>

lacksImage(case) ==
    /\ safeGet(case, "id", Null) # Null
    /\ safeGet(case, "crime_scene_image_url", Null) = Null

clearAutoRefresh(armed) ==
    SelectSeq(armed, LAMBDA t : t.queue \notin {"interval", "timeout"})

(* A faulty variant: the effect has no cleanup. *)
autoRefreshKeepsTimers(before, after, armed) ==
    IF autoRefreshDeps(after) = autoRefreshDeps(before)
    THEN armed
    ELSE armed \o
         ( IF lacksImage(after)
           THEN << [ queue |-> "interval", ids |-> {}, remaining |-> PollInterval,
                     closure |-> after ],
                   [ queue |-> "timeout", ids |-> {}, remaining |-> PollTimeout ] >>
           ELSE << >> )

autoRefresh(before, after, armed) ==
    IF autoRefreshDeps(after) = autoRefreshDeps(before)
    THEN armed
    ELSE clearAutoRefresh(armed) \o
         ( IF lacksImage(after)
           THEN << [ queue |-> "interval", ids |-> {}, remaining |-> PollInterval,
                     closure |-> after ],
                   [ queue |-> "timeout", ids |-> {}, remaining |-> PollTimeout ] >>
           ELSE << >> )

-----------------------------------------------------------------------------
(* saveGame, App.js:117-155.  writeOk: whether localStorage.setItem returns *)
(* (it throws when the quota is exceeded or storage is unavailable).       *)

(* A faulty variant: the record does not carry the analysis. *)
gameDataWithoutAnalysis(saveName) ==
    [ id |-> clock,
      name |-> IF saveName # << >> THEN saveName
               ELSE <<"Case: ", currentCase.title>>,
      timestamp |-> clock,
      currentCase |-> currentCase,
      sessionId |-> sessionId,
      conversations |-> conversations,
      investigationNotes |-> investigationNotes,
      selectedEvidence |-> selectedEvidence,
      theory |-> theory,
      gameState |-> gameState ]

(* A faulty variant: the record is named as given, also when no name is. *)
gameDataNamedAsGiven(saveName) ==
    [ id |-> clock,
      name |-> saveName,
      timestamp |-> clock,
      currentCase |-> currentCase,
      sessionId |-> sessionId,
      conversations |-> conversations,
      investigationNotes |-> investigationNotes,
      selectedEvidence |-> selectedEvidence,
      theory |-> theory,
      analysis |-> analysis,
      gameState |-> gameState ]

gameDataOf(saveName) ==
    [ id |-> clock,                                  \* Date.now().toString()
      name |-> IF saveName # << >> THEN saveName
               ELSE <<"Case: ", currentCase.title>>,
      timestamp |-> clock,                           \* new Date().toLocaleString()
      currentCase |-> currentCase,
      sessionId |-> sessionId,
      conversations |-> conversations,
      investigationNotes |-> investigationNotes,
      selectedEvidence |-> selectedEvidence,
      theory |-> theory,
      analysis |-> analysis,
      gameState |-> gameState ]

(* A faulty variant: the list in memory is updated before the write. *)
saveGameStateFirst(saveName, writeOk) ==
    /\ mounted
    /\ IF currentCase = NoCase
       THEN /\ DidOn("saveGame", [name |-> saveName], "no_case",
                    <<"No active case to save!">>)
            /\ UNCHANGED << saveStore, showSaveLoad >>
       ELSE /\ clock <= Len(PriorSaves) + MaxSaves
            /\ clock' = clock + 1
            /\ LET gameData == gameDataOf(saveName)
                   updatedSaves == Append(savedGames, gameData)
               IN  IF writeOk
                   THEN /\ localStorage' = Stored(JSONstringify(updatedSaves))
                        /\ savedGames' = updatedSaves
                        /\ showSaveLoad' = FALSE
                        /\ savedFrom' =
                              [i \in DOMAIN savedFrom \cup {gameData.id} |->
                                  IF i = gameData.id THEN controllerState
                                  ELSE savedFrom[i]]
                        /\ DidOn("saveGame", [name |-> saveName], "saved",
                               <<"Game saved successfully as: ">> \o gameData.name)
                   ELSE /\ savedGames' = updatedSaves
                        /\ UNCHANGED << localStorage, showSaveLoad, savedFrom >>
                        /\ DidOn("saveGame", [name |-> saveName], "write_failed",
                               <<"Failed to save game. Please try again.">>)
    /\ UNCHANGED << currentCase, sessionId, loading, activeCharacter, question,
                    investigation, gameState, notifications, requests, mounted,
                    selectionHistory >>

saveGame(saveName, writeOk) ==
    /\ mounted
    /\ IF currentCase = NoCase
       THEN /\ DidOn("saveGame", [name |-> saveName], "no_case",
                    <<"No active case to save!">>)
            /\ UNCHANGED << saveStore, showSaveLoad >>
       ELSE /\ clock <= Len(PriorSaves) + MaxSaves
            /\ clock' = clock + 1
            /\ LET gameData == gameDataOf(saveName)
                   updatedSaves == Append(savedGames, gameData)
               IN  IF writeOk
                   THEN /\ localStorage' = Stored(JSONstringify(updatedSaves))
                        /\ savedGames' = updatedSaves
                        /\ showSaveLoad' = FALSE
                        /\ savedFrom' =
                              [i \in DOMAIN savedFrom \cup {gameData.id} |->
                                  IF i = gameData.id THEN controllerState
                                  ELSE savedFrom[i]]
                        /\ DidOn("saveGame", [name |-> saveName], "saved",
                               <<"Game saved successfully as: ">> \o gameData.name)
                   ELSE /\ UNCHANGED << localStorage, savedGames, showSaveLoad,
                                        savedFrom >>
                        /\ DidOn("saveGame", [name |-> saveName], "write_failed",
                               <<"Failed to save game. Please try again.">>)
    /\ UNCHANGED << currentCase, sessionId, loading, activeCharacter, question,
                    investigation, gameState, notifications, requests, mounted,
                    selectionHistory >>

(* x || defaultValue on a property of a save record: the default when the  *)
(* property is missing or falsy.  An empty string is falsy; an array or an *)
(* object never is.                                                        *)
textOr(obj, key, defaultValue) ==
    IF has(obj, key) /\ obj[key] # << >> THEN obj[key] ELSE defaultValue

(* A faulty variant: without the property the screen mode stays as it is. *)
stringOrCurrent(obj, key, defaultValue) ==
    IF has(obj, key) /\ obj[key] # "" THEN obj[key] ELSE gameState

stringOr(obj, key, defaultValue) ==
    IF has(obj, key) /\ obj[key] # "" THEN obj[key] ELSE defaultValue

objectOr(obj, key, defaultValue) ==
    IF has(obj, key) THEN obj[key] ELSE defaultValue

(* loadGame, App.js:158-176 *)
loadGame(saveData) ==
    /\ mounted
    /\ currentCase' = saveData.currentCase
    /\ sessionId' = saveData.sessionId
    /\ conversations' = objectOr(saveData, "conversations", EmptyMap)
    /\ investigationNotes' = textOr(saveData, "investigationNotes", << >>)
    /\ selectedEvidence' = objectOr(saveData, "selectedEvidence", << >>)
    /\ theory' = textOr(saveData, "theory", << >>)
    /\ analysis' = textOr(saveData, "analysis", << >>)
    /\ gameState' = stringOr(saveData, "gameState", "playing")
    /\ showSaveLoad' = FALSE
    /\ DidOn("loadGame", [id |-> saveData.id, before |-> controllerState,
                           record |-> saveData],
             "loaded", <<"Loaded: ">> \o saveData.name)
    /\ selectionBase' = selectedEvidence'
    /\ toggleParity' = NoParity
    /\ timers' = autoRefresh(currentCase, currentCase', timers)
    /\ UNCHANGED << loading, activeCharacter, question,
                    newCharacterNotifications, visualSceneNotifications,
                    notificationSeq, saveStore, requests, mounted,
                    questionsSent >>

(* A faulty variant: the records after the deleted one go too. *)
withoutSaveAndLater(saves, saveId) ==
    LET first == CHOOSE i \in DOMAIN saves \cup {Len(saves) + 1} :
                    /\ i <= Len(saves) => saves[i].id = saveId
                    /\ \A j \in 1..(i - 1) : saves[j].id # saveId
    IN  SubSeq(saves, 1, first - 1)

(* App.js:243: savedGames.filter(save => save.id !== saveId) *)
withoutSave(saves, saveId) == SelectSeq(saves, LAMBDA save : save.id # saveId)

(* deleteSave, App.js:240-252.  confirmed: the answer to window.confirm. *)
(* A faulty variant: the state is set before the write is known to work. *)
deleteSaveStateFirst(saveId, confirmed, writeOk) ==
    /\ mounted
    /\ IF ~confirmed
       THEN /\ UNCHANGED << savedGames, localStorage >>
            /\ DidOn("deleteSave", saveId, "declined", NoAlert)
       ELSE LET updatedSaves == withoutSave(savedGames, saveId)
            IN  /\ savedGames' = updatedSaves
                /\ IF writeOk
                   THEN /\ localStorage' = Stored(JSONstringify(updatedSaves))
                        /\ DidOn("deleteSave", saveId, "deleted", NoAlert)
                   ELSE /\ UNCHANGED localStorage
                        /\ DidOn("deleteSave", saveId, "write_failed",
                               <<"Failed to delete save. Please try again.">>)
    /\ UNCHANGED << currentCase, sessionId, loading, activeCharacter, question,
                    investigation, gameState, showSaveLoad, notifications,
                    requests, mounted, clock, savedFrom, selectionHistory >>

deleteSave(saveId, confirmed, writeOk) ==
    /\ mounted
    /\ IF ~confirmed
       THEN /\ UNCHANGED << savedGames, localStorage >>
            /\ DidOn("deleteSave", saveId, "declined", NoAlert)
       ELSE LET updatedSaves == withoutSave(savedGames, saveId)
            IN  IF writeOk
                THEN /\ localStorage' = Stored(JSONstringify(updatedSaves))
                     /\ savedGames' = updatedSaves
                     /\ DidOn("deleteSave", saveId, "deleted", NoAlert)
                ELSE /\ UNCHANGED << savedGames, localStorage >>
                     /\ DidOn("deleteSave", saveId, "write_failed",
                            <<"Failed to delete save. Please try again.">>)
    /\ UNCHANGED << currentCase, sessionId, loading, activeCharacter, question,
                    investigation, gameState, showSaveLoad, notifications,
                    requests, mounted, clock, savedFrom, selectionHistory >>

(* Array.prototype.includes *)
includes(list, x) == \E i \in DOMAIN list : list[i] = x

(* A faulty variant: the id is added even when it is selected. *)
toggledAlwaysAdds(prev, evidenceId) == Append(prev, evidenceId)

(* The updater of App.js:445-449 *)
toggled(prev, evidenceId) ==
    IF includes(prev, evidenceId)
    THEN SelectSeq(prev, LAMBDA id : id # evidenceId)
    ELSE Append(prev, evidenceId)

(* toggleEvidenceSelection, App.js:444-450 *)
toggleEvidenceSelection(evidenceId) ==
    /\ mounted
    /\ selectedEvidence' = toggled(selectedEvidence, evidenceId)
    /\ toggleParity' =
          [toggleParity EXCEPT ![evidenceId] = (toggleParity[evidenceId] + 1) % 2]
    /\ DidOn("toggleEvidenceSelection", evidenceId, "toggled", NoAlert)
    /\ UNCHANGED << currentCase, sessionId, loading, activeCharacter, question,
                    conversations, theory, analysis, investigationNotes,
                    gameState, showSaveLoad, notifications, saveStore,
                    requests, mounted, selectionBase, questionsSent >>

-----------------------------------------------------------------------------
(* Requests in flight.  A request holds what the handler's closure captured *)
(* when it ran: the continuation reads these, not the state at the time    *)
(* the response arrives.                                                   *)

RemoveAt(seq, i) == SubSeq(seq, 1, i - 1) \o SubSeq(seq, i + 1, Len(seq))

(* A faulty variant: the handler ends without `finally`. *)
settleWithoutFinally(i) ==
    /\ requests' = RemoveAt(requests, i)
    /\ UNCHANGED loading

(* The `finally { setLoading(false) }` of the three handlers. *)
settle(i) ==
    /\ requests' = RemoveAt(requests, i)
    /\ loading' = FALSE

(* The requests in flight that refreshCaseData sent (polls) and those that *)
(* generateNewCase, questionCharacter and analyzeEvidence sent.  A poll    *)
(* neither sets nor reads the loading flag, App.js:179-218.                *)
inFlight(poll) ==
    Cardinality({ i \in DOMAIN requests : (requests[i].kind = "refresh") = poll })

(* generateNewCase, App.js:254-303: up to the await *)
generateNewCase ==
    /\ mounted
    /\ inFlight(FALSE) < MaxInFlight
    /\ loading' = TRUE
    /\ requests' = Append(requests, [kind |-> "generate"])
    /\ Did("generateNewCase", "sent", NoAlert)
    /\ UNCHANGED << currentCase, sessionId, activeCharacter, question,
                    investigation, gameState, showSaveLoad, notifications,
                    saveStore, mounted, selectionHistory >>

(* A faulty variant: a body without a session_id is rejected. *)
validCaseDataWithSession(data) ==
    has(data, "case") /\ has(data.case, "id") /\ has(data, "session_id")

(* A faulty variant: a case without an id is accepted. *)
validCaseDataAnyCase(data) == has(data, "case")

(* The validation of App.js:276-281 *)
validCaseData(data) == has(data, "case") /\ has(data.case, "id")

generateNewCaseFailure(outcome) ==
    IF ~outcome.ok THEN outcome.message
    ELSE <<"Invalid case data received from server">>

(* generateNewCase, App.js:269-302: from the response on *)
(* A faulty variant: the selection of the previous case is kept. *)
selectionKept == selectedEvidence

(* App.js:287  setSelectedEvidence([]) *)
selectionOfNewCase == << >>

generateNewCaseResume(i, response) ==
    /\ requests[i].kind = "generate"
    /\ settle(i)
    /\ LET outcome == fetchThenHandle(response)
       IN  IF outcome.ok /\ validCaseData(outcome.data)
           THEN /\ currentCase' = outcome.data.case
                /\ sessionId' = safeGet(outcome.data, "session_id", Null)
                /\ gameState' = "playing"
                /\ conversations' = EmptyMap
                /\ selectedEvidence' = selectionOfNewCase
                /\ theory' = << >>
                /\ analysis' = << >>
                /\ investigationNotes' = << >>
                /\ selectionBase' = << >>
                /\ toggleParity' = NoParity
                /\ UNCHANGED questionsSent
                /\ DidOn("generateNewCase",
                         [response |-> response, before |-> controllerState],
                         "success", NoAlert)
           ELSE /\ UNCHANGED << currentCase, sessionId, gameState, investigation,
                                selectionHistory >>
                /\ DidOn("generateNewCase",
                         [response |-> response, before |-> controllerState],
                         "failure",
                         <<"Failed to generate new case: ">>
                           \o generateNewCaseFailure(outcome))
    /\ timers' = autoRefresh(currentCase, currentCase', timers)
    /\ UNCHANGED << activeCharacter, question, showSaveLoad,
                    newCharacterNotifications, visualSceneNotifications,
                    notificationSeq, saveStore, mounted >>

-----------------------------------------------------------------------------
(* questionCharacter, App.js:305-407 *)

(* A faulty variant: the question is tested untrimmed. *)
nothingToAskUntrimmed == question = << >> \/ activeCharacter = NoCharacter

(* App.js:306: !question.trim() || !activeCharacter *)
nothingToAsk == trim(question) = << >> \/ activeCharacter = NoCharacter

(* up to the await, App.js:305-320 *)
questionCharacter ==
    /\ mounted
    /\ IF nothingToAsk
       THEN /\ UNCHANGED << loading, requests >>
            /\ Did("questionCharacter", "ignored", NoAlert)
       ELSE IF currentCase = NoCase
       THEN \* currentCase.id throws inside the try: catch, then finally
            /\ loading' = FALSE
            /\ UNCHANGED requests
            /\ Did("questionCharacter", "failure",
                   <<"Failed to question character: ",
                     "Cannot read properties of null">>)
       ELSE /\ inFlight(FALSE) < MaxInFlight
            /\ questionsSent < MaxQuestions
            /\ loading' = TRUE
            /\ requests' = Append(requests,
                  [ kind |-> "question", case_id |-> currentCase.id,
                    activeCharacter |-> activeCharacter,
                    question |-> question ])
            /\ Did("questionCharacter", "sent", NoAlert)
    /\ questionsSent' =
          IF Len(requests') > Len(requests) THEN questionsSent + 1 ELSE questionsSent
    /\ UNCHANGED << currentCase, sessionId, activeCharacter, question,
                    investigation, gameState, showSaveLoad, notifications,
                    saveStore, mounted, toggleParity, selectionBase >>

(* A faulty variant: the entry replaces the character's conversation. *)
appendConversationOverwrites(prev, charId, entry) ==
    [ k \in DOMAIN prev \cup {charId} |->
        IF k = charId THEN << entry >> ELSE prev[k] ]

(* App.js:331-341: the updater of setConversations *)
appendConversation(prev, charId, entry) ==
    [ k \in DOMAIN prev \cup {charId} |->
        IF k = charId
        THEN Append(IF k \in DOMAIN prev THEN prev[k] ELSE << >>, entry)
        ELSE prev[k] ]

RECURSIVE withoutRepeats(_)
withoutRepeats(list) ==
    IF list = << >> THEN << >>
    ELSE LET front == withoutRepeats(SubSeq(list, 1, Len(list) - 1))
             last == list[Len(list)]
         IN  IF includes(front, last) THEN front ELSE Append(front, last)

(* A faulty variant: a character named twice in a response is added once. *)
discoveredCharactersOnce(discoveries) ==
    LET carrying == SelectSeq(discoveries, LAMBDA d : has(d, "character"))
    IN  withoutRepeats([ i \in 1..Len(carrying) |-> carrying[i].character ])

(* App.js:349: discoveries.map(d => safeGet(d, 'character')).filter(Boolean) *)
discoveredCharacters(discoveries) ==
    LET carrying == SelectSeq(discoveries, LAMBDA d : has(d, "character"))
    IN  [ i \in 1..Len(carrying) |-> carrying[i].character ]

(* App.js:353-359: one notification per discovery that carries a character; *)
(* the ids are fresh, age is the time since its timestamp.                 *)
characterNotificationsFor(discoveries, firstId) ==
    LET carrying == SelectSeq(discoveries, LAMBDA d : has(d, "character"))
    IN  [ i \in 1..Len(carrying) |->
            [ id |-> firstId + i - 1,
              character |-> carrying[i].character,
              discoveredThrough |-> safeGet(carrying[i], "discovered_through", "Unknown"),
              context |-> safeGet(carrying[i], "context", ""),
              age |-> 0 ] ]

idsOf(list) == { list[i].id : i \in DOMAIN list }

(* from the response on, App.js:322-406 *)
questionCharacterResume(i, response) ==
    /\ requests[i].kind = "question"
    /\ settle(i)
    /\ LET outcome == fetchThenHandle(response)
           captured == requests[i]
       IN  IF ~outcome.ok
           THEN /\ UNCHANGED << currentCase, conversations, question, notifications >>
                /\ DidOn("questionCharacter",
                         [request |-> captured, response |-> response],
                         "failure",
                         <<"Failed to question character: ">> \o outcome.message)
           ELSE
             LET data == outcome.data
                 characterName ==
                     safeGet(data, "character_name", captured.activeCharacter.name)
                 response_text == safeGet(data, "response", <<"No response received">>)
                 charId == captured.activeCharacter.id
                 entry == [ question |-> trim(captured.question),
                            response |-> response_text,
                            timestamp |-> clock ]
                 discoveries == safeGet(data, "new_characters_discovered", << >>)
                 characterNotes ==
                     characterNotificationsFor(discoveries, notificationSeq)
                 sceneId == notificationSeq + Len(characterNotes)
                 hasScene == has(data, "visual_scene_generated")
                 withCharacters ==
                     IF Len(discoveries) > 0
                     THEN [currentCase EXCEPT !.characters =
                              @ \o discoveredCharacters(discoveries)]
                     ELSE currentCase
                 characterTimer ==
                     IF Len(discoveries) > 0
                     THEN << [ queue |-> "character", ids |-> idsOf(characterNotes),
                               remaining |-> CharacterDismissDelay ] >>
                     ELSE << >>
                 sceneTimer ==
                     IF hasScene
                     THEN << [ queue |-> "scene", ids |-> {sceneId},
                               remaining |-> SceneDismissDelay ] >>
                     ELSE << >>
             IN  /\ conversations' = appendConversation(conversations, charId, entry)
                 /\ currentCase' =
                       IF hasScene
                       THEN [withCharacters EXCEPT !.visual_scenes =
                                Append(@, data.visual_scene_generated)]
                       ELSE withCharacters
                 /\ newCharacterNotifications' =
                       newCharacterNotifications \o characterNotes
                 /\ visualSceneNotifications' =
                       IF hasScene
                       THEN Append(visualSceneNotifications,
                                   [ id |-> sceneId,
                                     scene |-> data.visual_scene_generated,
                                     character |-> characterName,
                                     age |-> 0 ])
                       ELSE visualSceneNotifications
                 /\ timers' = timers \o characterTimer \o sceneTimer
                 /\ notificationSeq' =
                       notificationSeq + Len(characterNotes) + (IF hasScene THEN 1 ELSE 0)
                 /\ question' = << >>
                 /\ DidOn("questionCharacter",
                          [request |-> captured, response |-> response],
                          "success", NoAlert)
    /\ UNCHANGED << sessionId, activeCharacter, selectedEvidence, theory,
                    analysis, investigationNotes, gameState, showSaveLoad,
                    saveStore, mounted, selectionHistory >>

-----------------------------------------------------------------------------
(* analyzeEvidence, App.js:409-442 *)

(* up to the await, App.js:409-427 *)
(* A faulty variant: only a call that lacks both is turned away. *)
nothingToAnalyzeAtAll == trim(theory) = << >> /\ Len(selectedEvidence) = 0

(* App.js:410  !theory.trim() || selectedEvidence.length === 0 *)
nothingToAnalyze == trim(theory) = << >> \/ Len(selectedEvidence) = 0

analyzeEvidence ==
    /\ mounted
    /\ IF nothingToAnalyze
       THEN /\ UNCHANGED << loading, requests >>
            /\ Did("analyzeEvidence", "invalid",
                   <<"Please select evidence and provide a theory to analyze.">>)
       ELSE IF currentCase = NoCase
       THEN \* currentCase.id throws inside the try: catch, then finally
            /\ loading' = FALSE
            /\ UNCHANGED requests
            /\ Did("analyzeEvidence", "failure",
                   <<"Failed to analyze evidence. Please try again.">>)
       ELSE /\ inFlight(FALSE) < MaxInFlight
            /\ loading' = TRUE
            /\ requests' = Append(requests,
                  [ kind |-> "analyze", case_id |-> currentCase.id,
                    evidence_ids |-> selectedEvidence,
                    theory |-> trim(theory) ])
            /\ Did("analyzeEvidence", "sent", NoAlert)
    /\ UNCHANGED << currentCase, sessionId, activeCharacter, question,
                    investigation, gameState, showSaveLoad, notifications,
                    saveStore, mounted, selectionHistory >>

(* A faulty variant: a null body is taken for an empty analysis. *)
analyzeOutcomeOfAnyBody(response) ==
    IF response.kind = "network_error" THEN Thrown(<<"Failed to fetch">>)
    ELSE IF ~response.ok THEN Thrown(<<"Failed to analyze evidence">>)
    ELSE IF response.body.json = "invalid" THEN Thrown(<<"Unexpected token in JSON">>)
    ELSE IF response.body.json = "null" THEN Returned([analysis |-> << >>])
    ELSE Returned(response.body.value)

(* App.js:429-434: what the try block yields.  The handler does not go     *)
(* through handleApiResponse: a null body fails at data.analysis.          *)
analyzeOutcome(response) ==
    IF response.kind = "network_error" THEN Thrown(<<"Failed to fetch">>)
    ELSE IF ~response.ok THEN Thrown(<<"Failed to analyze evidence">>)
    ELSE IF response.body.json = "invalid" THEN Thrown(<<"Unexpected token in JSON">>)
    ELSE IF response.body.json = "null"
    THEN Thrown(<<"Cannot read properties of null">>)
    ELSE Returned(response.body.value)

(* from the response on, App.js:429-441 *)
analyzeEvidenceResume(i, response) ==
    /\ requests[i].kind = "analyze"
    /\ settle(i)
    /\ LET outcome == analyzeOutcome(response)
       IN  IF outcome.ok
           THEN /\ analysis' = outcome.data.analysis
                /\ gameState' = "analysis"
                /\ DidOn("analyzeEvidence",
                         [response |-> response, before |-> controllerState],
                         "success", NoAlert)
           ELSE /\ UNCHANGED << analysis, gameState >>
                /\ DidOn("analyzeEvidence",
                         [response |-> response, before |-> controllerState],
                         "failure",
                       <<"Failed to analyze evidence. Please try again.">>)
    /\ UNCHANGED << currentCase, sessionId, activeCharacter, question,
                    conversations, selectedEvidence, theory, investigationNotes,
                    showSaveLoad, notifications, saveStore, mounted,
                    selectionHistory >>

-----------------------------------------------------------------------------
(* Notifications: the auto-dismiss timers of App.js:364-370 and 393-397,   *)
(* and the dismiss buttons, App.js:734-735.                                *)

(* A faulty variant: the oldest entry goes, whichever was meant. *)
withoutOldest(queue, ids) == IF queue = << >> THEN queue ELSE Tail(queue)

withoutIds(queue, ids) == SelectSeq(queue, LAMBDA n : n.id \notin ids)

(* The callback of an armed timer runs when its delay has elapsed. *)
timerFires(i) ==
    /\ timers[i].queue \in {"character", "scene"}
    /\ timers[i].remaining = 0
    /\ timers' = RemoveAt(timers, i)
    /\ IF timers[i].queue = "character"
       THEN /\ newCharacterNotifications' =
                  withoutIds(newCharacterNotifications, timers[i].ids)
            /\ UNCHANGED visualSceneNotifications
       ELSE /\ visualSceneNotifications' =
                  withoutIds(visualSceneNotifications, timers[i].ids)
            /\ UNCHANGED newCharacterNotifications
    /\ DidOn("timer", timers[i],
             IF timers[i].ids \cap
                  idsOf(IF timers[i].queue = "character"
                        THEN newCharacterNotifications
                        ELSE visualSceneNotifications) = {}
             THEN "nothing left" ELSE "fired", NoAlert)
    /\ UNCHANGED << currentCase, sessionId, loading, activeCharacter, question,
                    investigation, gameState, showSaveLoad, saveStore, mounted,
                    requests, notificationSeq, selectionHistory >>

older(queue, ms) == [ i \in DOMAIN queue |-> [queue[i] EXCEPT !.age = @ + ms] ]

(* One second passes.  A timer that is due runs before more time passes.   *)
tick ==
    /\ timers # << >>
    /\ \A i \in DOMAIN timers : timers[i].remaining > 0
    /\ timers' = [ i \in DOMAIN timers |->
                     [timers[i] EXCEPT !.remaining = @ - 1000] ]
    /\ newCharacterNotifications' = older(newCharacterNotifications, 1000)
    /\ visualSceneNotifications' = older(visualSceneNotifications, 1000)
    /\ Did("tick", "1s", NoAlert)
    /\ UNCHANGED << currentCase, sessionId, loading, activeCharacter, question,
                    investigation, gameState, showSaveLoad, saveStore, mounted,
                    requests, notificationSeq, selectionHistory >>

onDismissCharacter(id) ==
    /\ newCharacterNotifications' = withoutIds(newCharacterNotifications, {id})
    /\ DidOn("onDismissCharacter", id, "dismissed", NoAlert)
    /\ UNCHANGED << currentCase, sessionId, loading, activeCharacter, question,
                    investigation, gameState, showSaveLoad, saveStore, mounted,
                    requests, timers, visualSceneNotifications,
                    notificationSeq, selectionHistory >>

onDismissVisual(id) ==
    /\ visualSceneNotifications' = withoutIds(visualSceneNotifications, {id})
    /\ DidOn("onDismissVisual", id, "dismissed", NoAlert)
    /\ UNCHANGED << currentCase, sessionId, loading, activeCharacter, question,
                    investigation, gameState, showSaveLoad, saveStore, mounted,
                    requests, timers, newCharacterNotifications,
                    notificationSeq, selectionHistory >>

-----------------------------------------------------------------------------
(* refreshCaseData, App.js:179-218, and the timers of the auto-refresh     *)
(* effect, App.js:224-230.                                                 *)

(* up to the await, App.js:180-188; `seen` is the case of the render the   *)
(* function belongs to                                                     *)
refreshCaseData(seen, automatic) ==
    /\ IF safeGet(seen, "id", Null) = Null
       THEN /\ UNCHANGED requests
            /\ DidOn("refreshCaseData", [automatic |-> automatic], "no_case", NoAlert)
       ELSE /\ inFlight(TRUE) < MaxInFlight
            /\ requests' = Append(requests,
                  [ kind |-> "refresh", case_id |-> seen.id, seen |-> seen,
                    automatic |-> automatic ])
            /\ DidOn("refreshCaseData", [automatic |-> automatic], "sent", NoAlert)
    /\ UNCHANGED << currentCase, sessionId, loading, activeCharacter, question,
                    investigation, gameState, showSaveLoad,
                    newCharacterNotifications, visualSceneNotifications,
                    notificationSeq, saveStore, mounted, selectionHistory >>

(* The interval of the effect is due: it calls refreshCaseData and is due  *)
(* again one interval later.                                               *)
intervalFires(i) ==
    /\ timers[i].queue = "interval"
    /\ timers[i].remaining = 0
    /\ timers' = [timers EXCEPT ![i].remaining = PollInterval]
    /\ refreshCaseData(timers[i].closure, TRUE)

(* The timeout of the effect is due: clearInterval. *)
timeoutFires(i) ==
    /\ timers[i].queue = "timeout"
    /\ timers[i].remaining = 0
    /\ timers' = clearAutoRefresh(timers)
    /\ Did("clearInterval", "stopped", NoAlert)
    /\ UNCHANGED << currentCase, sessionId, loading, activeCharacter, question,
                    investigation, gameState, showSaveLoad,
                    newCharacterNotifications, visualSceneNotifications,
                    notificationSeq, saveStore, mounted, requests,
                    selectionHistory >>

(* A faulty variant: a body without a case is taken for the case. *)
refreshOutcomeOfBody(response) ==
    IF response.kind = "network_error" THEN Thrown(<<"Failed to fetch">>)
    ELSE IF ~response.ok THEN Thrown(<<"skipped">>)
    ELSE IF response.body.json = "invalid" THEN Thrown(<<"Unexpected token in JSON">>)
    ELSE IF response.body.json = "null"
    THEN Thrown(<<"Cannot read properties of null">>)
    ELSE IF ~has(response.body.value, "case")
    THEN Returned(response.body.value)
    ELSE Returned(response.body.value.case)

(* App.js:190-192: the fetched case.  A response that is not ok is passed  *)
(* over; a null body fails at data.case, a body without a case at the      *)
(* first property read of updatedCase.                                     *)
refreshOutcome(response) ==
    IF response.kind = "network_error" THEN Thrown(<<"Failed to fetch">>)
    ELSE IF ~response.ok THEN Thrown(<<"skipped">>)
    ELSE IF response.body.json = "invalid" THEN Thrown(<<"Unexpected token in JSON">>)
    ELSE IF response.body.json = "null"
    THEN Thrown(<<"Cannot read properties of null">>)
    ELSE IF ~has(response.body.value, "case")
    THEN Thrown(<<"Cannot read properties of undefined">>)
    ELSE Returned(response.body.value.case)

scenesOf(case) == safeGet(case, "visual_scenes", << >>)

(* A faulty variant: the fetched case takes the place of the case. *)
refreshedWhole(prev, seen, updatedCase) == updatedCase

(* The two updaters of App.js:195-213, applied to the case of the moment.  *)
(* What is compared is the case that the function saw.                     *)
refreshed(prev, seen, updatedCase) ==
    LET url == safeGet(updatedCase, "crime_scene_image_url", Null)
        withImage ==
            IF safeGet(seen, "crime_scene_image_url", Null) = Null /\ url # Null
            THEN [ k \in DOMAIN prev \cup {"crime_scene_image_url"} |->
                     IF k = "crime_scene_image_url" THEN url ELSE prev[k] ]
            ELSE prev
    IN  IF Len(scenesOf(updatedCase)) > Len(scenesOf(seen))
        THEN [ k \in DOMAIN withImage \cup {"visual_scenes"} |->
                 IF k = "visual_scenes" THEN scenesOf(updatedCase)
                 ELSE withImage[k] ]
        ELSE withImage

(* from the response on, App.js:190-217 *)
refreshCaseDataResume(i, response) ==
    /\ requests[i].kind = "refresh"
    /\ requests' = RemoveAt(requests, i)
    /\ LET outcome == refreshOutcome(response)
       IN  IF outcome.ok
           THEN /\ currentCase' = refreshed(currentCase, requests[i].seen, outcome.data)
                /\ DidOn("refreshCaseData",
                         [ request |-> requests[i], response |-> response,
                           before |-> controllerState ],
                         "completed", NoAlert)
           ELSE /\ UNCHANGED currentCase
                /\ DidOn("refreshCaseData",
                         [ request |-> requests[i], response |-> response,
                           before |-> controllerState ],
                         "failed", NoAlert)
    /\ timers' = autoRefresh(currentCase, currentCase', timers)
    /\ UNCHANGED << sessionId, loading, activeCharacter, question,
                    investigation, gameState, showSaveLoad,
                    newCharacterNotifications, visualSceneNotifications,
                    notificationSeq, saveStore, mounted, selectionHistory >>

-----------------------------------------------------------------------------
(* The views, App.js:452, 611, 652: which controls exist. *)

MenuView == gameState = "menu" \/ currentCase = NoCase
AnalysisView == ~MenuView /\ gameState = "analysis"
PlayingView == ~MenuView /\ gameState # "analysis"

(* App.js:794 with CharacterInteraction.js:49: the question panel is shown *)
(* in the card of the character whose id is the active character's.        *)
QuestionPanelShown ==
    /\ PlayingView
    /\ \E c \in Range(currentCase.characters) : activeCharacter.id = c.id

(* The state setters that the controls call directly. *)
setGameState(value) ==
    /\ gameState' = value
    /\ DidOn("setGameState", value, "set", NoAlert)
    /\ UNCHANGED << currentCase, sessionId, loading, activeCharacter, question,
                    investigation, showSaveLoad, notifications, saveStore,
                    mounted, requests, selectionHistory >>

setShowSaveLoad(value) ==
    /\ showSaveLoad' = value
    /\ Did("setShowSaveLoad", "set", NoAlert)
    /\ UNCHANGED << currentCase, sessionId, loading, activeCharacter, question,
                    investigation, gameState, notifications, saveStore,
                    mounted, requests, selectionHistory >>

setActiveCharacter(character) ==
    /\ activeCharacter' = character
    /\ Did("setActiveCharacter", "set", NoAlert)
    /\ UNCHANGED << currentCase, sessionId, loading, question, investigation,
                    gameState, showSaveLoad, notifications, saveStore,
                    mounted, requests, selectionHistory >>

setQuestion(text) ==
    /\ question' = text
    /\ Did("setQuestion", "set", NoAlert)
    /\ UNCHANGED << currentCase, sessionId, loading, activeCharacter,
                    investigation, gameState, showSaveLoad, notifications,
                    saveStore, mounted, requests, selectionHistory >>

setTheory(text) ==
    /\ theory' = text
    /\ Did("setTheory", "set", NoAlert)
    /\ UNCHANGED << currentCase, sessionId, loading, activeCharacter, question,
                    conversations, selectedEvidence, analysis,
                    investigationNotes, gameState, showSaveLoad, notifications,
                    saveStore, mounted, requests, selectionHistory >>

setInvestigationNotes(text) ==
    /\ investigationNotes' = text
    /\ Did("setInvestigationNotes", "set", NoAlert)
    /\ UNCHANGED << currentCase, sessionId, loading, activeCharacter, question,
                    conversations, selectedEvidence, theory, analysis,
                    gameState, showSaveLoad, notifications, saveStore,
                    mounted, requests, selectionHistory >>

(* The controls, each with the condition under which it is rendered and    *)
(* enabled.  A text control takes the texts the user may type.             *)

(* A faulty variant: the button is offered in every view. *)
ClickStartInvestigationAnywhere == ~loading /\ generateNewCase

ClickStartInvestigation ==               \* App.js:494-496
    MenuView /\ ~loading /\ generateNewCase

ClickSaveLoad ==                         \* App.js:509, 667
    mounted /\ (MenuView \/ PlayingView) /\ ~showSaveLoad /\ setShowSaveLoad(TRUE)

ClickClose ==                            \* App.js:598, 958
    (MenuView \/ PlayingView) /\ showSaveLoad /\ setShowSaveLoad(FALSE)

ClickSaveCurrentProgress ==              \* App.js:899-911
    /\ PlayingView /\ showSaveLoad
    /\ \E input \in PromptInputs, writeOk \in BOOLEAN :
          /\ trim(input) # << >>
          /\ saveGame(trim(input), writeOk)

ClickLoad ==                             \* App.js:577, 937
    /\ (MenuView \/ PlayingView) /\ showSaveLoad
    /\ \E i \in DOMAIN savedGames : loadGame(savedGames[i])

ClickDelete ==                           \* App.js:583, 943
    /\ (MenuView \/ PlayingView) /\ showSaveLoad
    /\ \E i \in DOMAIN savedGames, confirmed \in BOOLEAN, writeOk \in BOOLEAN :
          deleteSave(savedGames[i].id, confirmed, writeOk)

ClickContinueInvestigation ==            \* App.js:634
    AnalysisView /\ setGameState("playing")

ClickNewCase ==                          \* App.js:640, 661
    (AnalysisView \/ PlayingView) /\ setGameState("menu")

ClickCharacter ==                        \* App.js:795
    /\ PlayingView
    /\ \E c \in Range(currentCase.characters) :
          activeCharacter # c /\ setActiveCharacter(c)

TypeQuestion(texts) ==                   \* CharacterInteraction.js:55-62
    /\ QuestionPanelShown /\ ~loading
    /\ \E text \in texts : text # question /\ setQuestion(text)

AskQuestion ==                           \* CharacterInteraction.js:61, 64-66
    QuestionPanelShown /\ ~loading /\ trim(question) # << >> /\ questionCharacter

TypeNotes(texts) ==                      \* App.js:812-814, 827
    /\ PlayingView
    /\ \E text \in texts :
          text # investigationNotes /\ setInvestigationNotes(text)

ClickEvidence ==                         \* EvidenceBoard.js:15, 56-62
    /\ PlayingView
    /\ \E e \in Range(currentCase.evidence) : toggleEvidenceSelection(e.id)

TypeTheory(texts) ==                     \* App.js:861-863
    /\ PlayingView
    /\ \E text \in texts : text # theory /\ setTheory(text)

ClickAnalyze ==                          \* App.js:874-876
    /\ PlayingView /\ ~loading
    /\ trim(theory) # << >> /\ Len(selectedEvidence) # 0
    /\ analyzeEvidence

ClickDismissCharacter ==                 \* Notifications.js:62, App.js:735
    /\ PlayingView
    /\ \E n \in Range(newCharacterNotifications) : onDismissCharacter(n.id)

ClickDismissVisual ==                    \* Notifications.js:36, App.js:734
    /\ PlayingView
    /\ \E n \in Range(visualSceneNotifications) : onDismissVisual(n.id)

(* The backend answers a request in flight with one of `responses`. *)
GenerateResponse(responses) ==
    \E i \in DOMAIN requests, response \in responses :
        generateNewCaseResume(i, response)

QuestionResponse(responses) ==
    \E i \in DOMAIN requests, response \in responses :
        questionCharacterResume(i, response)

AnalyzeResponse(responses) ==
    \E i \in DOMAIN requests, response \in responses :
        analyzeEvidenceResume(i, response)

TimerFires == \E i \in DOMAIN timers : timerFires(i)

ClickCheckNow ==                         \* App.js:753, 761-766
    /\ PlayingView
    /\ safeGet(currentCase, "crime_scene_image_url", Null) = Null
    /\ refreshCaseData(currentCase, FALSE)
    /\ UNCHANGED timers

IntervalFires == \E i \in DOMAIN timers : intervalFires(i)

TimeoutFires == \E i \in DOMAIN timers : timeoutFires(i)

RefreshResponse(responses) ==
    \E i \in DOMAIN requests, response \in responses :
        refreshCaseDataResume(i, response)

-----------------------------------------------------------------------------
(* Specifications.  The handlers write disjoint parts of the state, so a   *)
(* property of one part is checked under the controls that reach it: each  *)
(* specification below takes the same Init and the same actions, and       *)
(* leaves out the controls that neither write what it is about nor enable  *)
(* a control that does.                                                    *)

(* The save store: the mount effect, saving, loading and deleting, with   *)
(* new cases generated over loaded investigations.                         *)
NextStore ==
    \/ loadSavedGames
    \/ ClickStartInvestigation
    \/ GenerateResponse(GenerateResponses)
    \/ ClickSaveLoad
    \/ ClickClose
    \/ ClickSaveCurrentProgress
    \/ ClickLoad
    \/ ClickDelete
    \/ ClickNewCase

SpecStore == Init /\ [][NextStore]_vars

(* The evidence selection: toggling, and the two handlers that replace the *)
(* selection (a generated case, a loaded save).                            *)
NextSelection ==
    \/ loadSavedGames
    \/ ClickStartInvestigation
    \/ GenerateResponse(GenerateResponses)
    \/ ClickSaveLoad
    \/ ClickClose
    \/ ClickSaveCurrentProgress
    \/ ClickLoad
    \/ ClickNewCase
    \/ ClickEvidence

SpecSelection == Init /\ [][NextSelection]_vars

(* Questioning: choosing a character, typing, asking, and the answer, on a *)
(* generated case or on a loaded one that already has conversations.       *)
NextPlay ==
    \/ loadSavedGames
    \/ ClickStartInvestigation
    \/ GenerateResponse({NetworkError, GeneratedStudy})
    \/ ClickSaveLoad
    \/ ClickLoad
    \/ ClickNewCase
    \/ ClickCharacter
    \/ TypeQuestion(QuestionInputs)
    \/ AskQuestion
    \/ QuestionResponse(ConversationResponses)

SpecPlay == Init /\ [][NextPlay]_vars

(* A first start of the program: nothing is stored. *)
InitFresh == Init /\ localStorage = Absent

(* The character notifications: discoveries arriving, time passing, the    *)
(* auto-dismiss timers and the dismiss button.                             *)
NextNotify ==
    \/ loadSavedGames
    \/ ClickStartInvestigation
    \/ GenerateResponse({GeneratedManor})
    \/ ClickCharacter
    \/ TypeQuestion({<<"q">>})
    \/ AskQuestion
    \/ QuestionResponse(DiscoveryResponses)
    \/ tick
    \/ TimerFires
    \/ ClickDismissCharacter

SpecNotify == InitFresh /\ [][NextNotify]_vars

(* The scene notifications: scenes arriving, time passing, the             *)
(* auto-dismiss timers and the dismiss button.                             *)
NextScenes ==
    \/ loadSavedGames
    \/ ClickStartInvestigation
    \/ GenerateResponse({GeneratedManor})
    \/ ClickCharacter
    \/ TypeQuestion({<<"q">>})
    \/ AskQuestion
    \/ QuestionResponse(SceneResponses)
    \/ tick
    \/ TimerFires
    \/ ClickDismissVisual

SpecScenes == InitFresh /\ [][NextScenes]_vars

(* The scene list of one case: answers that bring a scene, and polls that  *)
(* the user starts while a question is on its way.                         *)
NextAppend ==
    \/ loadSavedGames
    \/ ClickStartInvestigation
    \/ GenerateResponse({GeneratedStudy})
    \/ ClickCharacter
    \/ TypeQuestion({<<"q">>})
    \/ AskQuestion
    \/ QuestionResponse({SceneAnswer})
    \/ QuestionResponse({CellarAnswer})
    \/ ClickCheckNow
    \/ RefreshResponse({FetchedNothingNew})
    \/ RefreshResponse({FetchedScene})

SpecAppend == InitFresh /\ [][NextAppend]_vars

(* The two queues side by side: every answer brings a character and a      *)
(* scene, and either notification can be dismissed before its timer fires. *)
NextDismiss ==
    \/ loadSavedGames
    \/ ClickStartInvestigation
    \/ GenerateResponse({GeneratedManor})
    \/ ClickCharacter
    \/ TypeQuestion({<<"q">>})
    \/ AskQuestion
    \/ QuestionResponse({GardenerAndSceneAnswer})
    \/ tick
    \/ TimerFires
    \/ ClickDismissCharacter
    \/ ClickDismissVisual

SpecDismiss == InitFresh /\ [][NextDismiss]_vars

(* The screen mode: every control and every response that sets it, and     *)
(* what enables them.                                                      *)
NextMode ==
    \/ loadSavedGames
    \/ ClickStartInvestigation
    \/ GenerateResponse({NetworkError, GeneratedStudy})
    \/ ClickSaveLoad
    \/ ClickClose
    \/ ClickLoad
    \/ ClickEvidence
    \/ TypeTheory(TheoryInputs)
    \/ ClickAnalyze
    \/ AnalyzeResponse(AnalyzeResponses)
    \/ ClickContinueInvestigation
    \/ ClickNewCase

SpecMode == Init /\ [][NextMode]_vars

(* The handlers called directly, whatever the controls allow: the question *)
(* may be blank and no character may be active when questionCharacter runs.*)
CallSetQuestion(texts) ==
    mounted /\ \E text \in texts : text # question /\ setQuestion(text)

NextCall ==
    \/ loadSavedGames
    \/ ClickStartInvestigation
    \/ GenerateResponse({GeneratedStudy})
    \/ ClickCharacter
    \/ CallSetQuestion(Blank)
    \/ CallSetQuestion(QuestionInputs)
    \/ questionCharacter
    \/ QuestionResponse({NetworkError, PlainAnswer})

SpecCall == Init /\ [][NextCall]_vars

(* The refresher: a generated or loaded case, the timers of the effect,    *)
(* the Check Now button and the answers to the polls.                      *)
NextPoll ==
    \/ loadSavedGames
    \/ ClickStartInvestigation
    \/ GenerateResponse({GeneratedStudy})
    \/ ClickSaveLoad
    \/ ClickLoad
    \/ tick
    \/ IntervalFires
    \/ TimeoutFires
    \/ ClickCheckNow
    \/ RefreshResponse(RefreshResponses)

SpecPoll == Init /\ [][NextPoll]_vars

(* The selection against the case: toggles, generated and loaded cases,    *)
(* polls by the Check Now button and their late answers.                   *)
NextEvidence ==
    \/ loadSavedGames
    \/ ClickStartInvestigation
    \/ GenerateResponse({GeneratedStudy})
    \/ GenerateResponse({GeneratedManor})
    \/ ClickSaveLoad
    \/ ClickLoad
    \/ ClickNewCase
    \/ ClickEvidence
    \/ ClickCheckNow
    \/ RefreshResponse({NetworkError, FetchedImage})

SpecEvidence == Init /\ [][NextEvidence]_vars

(* Questions and analyses with every kind of failing answer, after         *)
(* answers that filled the conversations and the notification queues.      *)
NextFailure ==
    \/ loadSavedGames
    \/ ClickStartInvestigation
    \/ GenerateResponse({NetworkError, GeneratedStudy})
    \/ GenerateResponse({HttpError(<<"backend down">>)})
    \/ ClickCharacter
    \/ TypeQuestion({ <<"q">> })
    \/ AskQuestion
    \/ QuestionResponse(FailureResponses)
    \/ QuestionResponse({GardenerAndSceneAnswer})
    \/ ClickEvidence
    \/ TypeTheory({ <<"t">> })
    \/ ClickAnalyze
    \/ AnalyzeResponse(AnalyzeResponses)
    \/ ClickContinueInvestigation

SpecFailure == InitFresh /\ [][NextFailure]_vars

(* The same handlers when every fetch settles: its promise is fulfilled   *)
(* with a response or rejected with an error, and the handler then runs to *)
(* its end, so an answer that is due is not put off forever.               *)
SpecLoading ==
    /\ InitFresh /\ [][NextFailure]_vars
    /\ WF_vars(GenerateResponse({NetworkError, GeneratedStudy}))
    /\ WF_vars(GenerateResponse({HttpError(<<"backend down">>)}))
    /\ WF_vars(QuestionResponse(FailureResponses))
    /\ WF_vars(QuestionResponse({GardenerAndSceneAnswer}))
    /\ WF_vars(AnalyzeResponse(AnalyzeResponses))

(* analyzeEvidence called whatever the theory and the selection are, which *)
(* the Analyze button (disabled then, App.js:874-876) does not do.         *)
CallSetTheory(texts) ==
    mounted /\ \E text \in texts : text # theory /\ setTheory(text)

NextCallAnalyze ==
    \/ loadSavedGames
    \/ ClickStartInvestigation
    \/ GenerateResponse({GeneratedStudy})
    \/ ClickEvidence
    \/ CallSetTheory(Blank)
    \/ CallSetTheory(TheoryInputs)
    \/ analyzeEvidence
    \/ AnalyzeResponse({NetworkError, HttpOk(JsonObject([analysis |-> <<"v">>]))})

SpecCallAnalyze == Init /\ [][NextCallAnalyze]_vars

(* saveGame called on any screen, with a name or without one.  The Save    *)
(* button exists only on the investigation screen and always passes a name *)
(* (App.js:899-911).                                                       *)
CallSaveGame ==
    \E saveName \in { << >>, <<"A">> }, writeOk \in BOOLEAN :
        saveGame(saveName, writeOk)

NextCallSave ==
    \/ loadSavedGames
    \/ ClickStartInvestigation
    \/ GenerateResponse({GeneratedStudy})
    \/ ClickEvidence
    \/ TypeNotes(NotesInputs)
    \/ CallSaveGame

SpecCallSave == Init /\ [][NextCallSave]_vars

(* loadGame called with records of any shape, among them one without the   *)
(* optional fields, which saveGame never writes.                           *)
CallLoadGame ==
    /\ mounted
    /\ \/ \E i \in DOMAIN PriorSaves : loadGame(PriorSaves[i])
       \/ loadGame(BareSave)

NextCallLoad ==
    \/ loadSavedGames
    \/ ClickStartInvestigation
    \/ GenerateResponse({GeneratedStudy})
    \/ ClickEvidence
    \/ TypeNotes(NotesInputs)
    \/ CallLoadGame

SpecCallLoad == Init /\ [][NextCallLoad]_vars

-----------------------------------------------------------------------------
(* Properties *)

(* The list that the persistent store holds. *)
PersistedList ==
    IF localStorage.present /\ has(localStorage.text, "json")
    THEN localStorage.text.json
    ELSE << >>

NoDuplicates(list) == \A i, j \in DOMAIN list : list[i] = list[j] => i = j

(* C1: as long as neither generateNewCase nor loadGame has replaced the    *)
(* selection, selectedEvidence holds an evidence id exactly when the id    *)
(* has been toggled an odd number of times, and holds no id twice.         *)
C1_ToggleParity ==
    selectionBase = << >> =>
        /\ \A id \in EvidenceIds :
              includes(selectedEvidence, id) <=> toggleParity[id] = 1
        /\ NoDuplicates(selectedEvidence)

(* e1 was selected and unselected again while e2 stays selected. *)
C1_Witness ==
    /\ selectionBase = << >>
    /\ lastEvent.op = "toggleEvidenceSelection"
    /\ lastEvent.arg = "e1"
    /\ toggleParity["e1"] = 0
    /\ toggleParity["e2"] = 1
    /\ selectedEvidence = <<"e2">>

(* C2: loadGame of a record that saveGame created in this run, whatever    *)
(* happened in between, leaves the case, the session id, the              *)
(* conversations, the notes, the selected evidence, the theory, the        *)
(* analysis and the screen mode as they were when saveGame ran.            *)
C2_RoundTrip ==
    /\ lastEvent.op = "loadGame"
    /\ lastEvent.arg.id \in DOMAIN savedFrom
    => controllerState = savedFrom[lastEvent.arg.id]

(* The record saved in this run, late in an investigation, has been loaded *)
(* over a state that differed from the saved one.                          *)
C2_Witness ==
    /\ lastEvent.op = "loadGame"
    /\ lastEvent.arg.id \in DOMAIN savedFrom
    /\ lastEvent.arg.before # savedFrom[lastEvent.arg.id]
    /\ controllerState = savedFrom[lastEvent.arg.id]
    /\ conversations # EmptyMap
    /\ analysis = <<"v">>
    /\ selectedEvidence = <<"e1">>

(* What a deleteSave step that removes does to the two lists: the records  *)
(* with another id keep their content and their order, the one record with *)
(* the id is gone, and the store holds the same list as the memory.        *)
DeleteRemovesExactly(saveId) ==
    LET matching == { i \in DOMAIN savedGames : savedGames[i].id = saveId }
        removedBefore(i) == Cardinality({ j \in matching : j < i })
    IN  /\ Cardinality(matching) = 1
        /\ Len(savedGames') = Len(savedGames) - 1
        /\ \A i \in DOMAIN savedGames \ matching :
              savedGames'[i - removedBefore(i)] = savedGames[i]
        /\ PersistedList' = savedGames'
        /\ localStorage'.present

(* C3: a confirmed deleteSave(saveId) whose write to the store succeeds    *)
(* removes exactly the record with that id from the in-memory and the      *)
(* persisted list and keeps the others in order; when the user declines or *)
(* the write fails, neither list changes.                                  *)
C3_DeleteExact ==
    [][ lastEvent'.op = "deleteSave" =>
          IF lastEvent'.outcome = "deleted"
          THEN DeleteRemovesExactly(lastEvent'.arg)
          ELSE UNCHANGED << savedGames, localStorage >> ]_vars

(* Of three records, the middle one has been deleted. *)
C3_Witness ==
    /\ lastEvent.op = "deleteSave"
    /\ lastEvent.outcome = "deleted"
    /\ lastEvent.arg = 2
    /\ Len(savedGames) = 2
    /\ savedGames[1] = PriorSaveA
    /\ savedGames[2].id = 3
    /\ PersistedList = savedGames

(* C3 as worded: every confirmed deleteSave removes the record. *)
C3_AsWorded ==
    [][ lastEvent'.op = "deleteSave" =>
          IF lastEvent'.outcome # "declined"
          THEN DeleteRemovesExactly(lastEvent'.arg)
          ELSE UNCHANGED << savedGames, localStorage >> ]_vars

(* C4: the start-up load leaves the in-memory list empty, and reports      *)
(* nothing, when the store holds no value or a value that does not parse;  *)
(* the value that does not parse is removed from the store.                *)
C4_StartupLoad ==
    [][ ~mounted /\ mounted' =>
          LET unparsable == localStorage.present
                              /\ ~has(localStorage.text, "json")
          IN  /\ ~localStorage.present \/ unparsable =>
                    savedGames' = << >> /\ lastAlert' = NoAlert
              /\ unparsable => localStorage' = Absent ]_vars

(* The program has started on a store whose value did not parse. *)
C4_Witness ==
    /\ mounted
    /\ lastEvent.op = "loadSavedGames"
    /\ lastEvent.outcome = "corrupted"
    /\ savedGames = << >>
    /\ localStorage = Absent

(* The continuation of a handler runs: a request leaves `requests`. *)
Resumes(op) == lastEvent'.op = op /\ Len(requests') < Len(requests)

(* The response is a 2xx one whose body is a JSON object. *)
CarriesObject(response) ==
    /\ response.kind = "http"
    /\ response.ok
    /\ response.body.json = "object"

(* ... and the object holds a case that has an id. *)
CarriesCase(response) ==
    /\ CarriesObject(response)
    /\ has(response.body.value, "case")
    /\ has(response.body.value.case, "id")

(* C5: when the response to generateNewCase is a success that carries a    *)
(* case with an id, then whatever the state was, the case is the returned  *)
(* case, the session id the returned session_id, the conversations and the *)
(* selection are empty, theory, analysis and notes are empty texts and the *)
(* screen mode is "playing".                                               *)
C5_GenerateSuccess ==
    [][ Resumes("generateNewCase") /\ CarriesCase(lastEvent'.arg.response) =>
          LET data == lastEvent'.arg.response.body.value
          IN  /\ currentCase' = data.case
              /\ sessionId' = IF has(data, "session_id") THEN data.session_id
                              ELSE Null
              /\ conversations' = EmptyMap
              /\ selectedEvidence' = << >>
              /\ theory' = << >>
              /\ analysis' = << >>
              /\ investigationNotes' = << >>
              /\ gameState' = "playing" ]_vars

(* A case was generated over the investigation of a loaded save that had   *)
(* conversations, notes, a selection, a theory and an analysis.            *)
C5_Witness ==
    /\ lastEvent.op = "generateNewCase"
    /\ lastEvent.outcome = "success"
    /\ lastEvent.arg.response = GeneratedStudy
    /\ lastEvent.arg.before =
          << CaseStudy, "s1", PriorSaveB.conversations, <<"n">>, <<"e1">>,
             <<"t">>, <<"v">>, "menu" >>
    /\ conversations = EmptyMap
    /\ analysis = << >>
    /\ gameState = "playing"

(* C6: when generateNewCase fails (no response, a non-2xx status, or a     *)
(* body without a case that has an id) the failure is reported and the     *)
(* case, the session id, the conversations, the selection, the theory, the *)
(* analysis, the notes and the screen mode stay as they were.              *)
C6_GenerateFailure ==
    [][ Resumes("generateNewCase") /\ ~CarriesCase(lastEvent'.arg.response) =>
          /\ UNCHANGED controllerState
          /\ lastAlert' # NoAlert ]_vars

(* A body whose case has no id arrived over a rich investigation. *)
C6_Witness ==
    /\ lastEvent.op = "generateNewCase"
    /\ lastEvent.outcome = "failure"
    /\ CarriesObject(lastEvent.arg.response)
    /\ has(lastEvent.arg.response.body.value, "case")
    /\ lastAlert # NoAlert
    /\ controllerState =
          << CaseStudy, "s1", PriorSaveB.conversations, <<"n">>, <<"e1">>,
             <<"t">>, <<"v">>, "menu" >>

Modes == {"menu", "playing", "analysis"}

(* The changes of screen mode that the controls and the responses are      *)
(* meant to make.                                                          *)
ListedModeChange ==
    \/ /\ gameState = "menu" /\ gameState' = "playing"
       /\ \/ lastEvent'.op = "generateNewCase" /\ lastEvent'.outcome = "success"
          \/ lastEvent'.op = "loadGame"
    \/ /\ gameState = "playing" /\ gameState' = "analysis"
       /\ lastEvent'.op = "analyzeEvidence" /\ lastEvent'.outcome = "success"
    \/ /\ gameState = "analysis" /\ gameState' = "playing"
       /\ lastEvent'.op = "setGameState" /\ lastEvent'.arg = "playing"
    \/ /\ gameState \in {"playing", "analysis"} /\ gameState' = "menu"
       /\ lastEvent'.op = "setGameState" /\ lastEvent'.arg = "menu"

(* The analysis of a case arrives after the user has asked for a new case. *)
LateAnalysis ==
    /\ gameState = "menu" /\ gameState' = "analysis"
    /\ lastEvent'.op = "analyzeEvidence" /\ lastEvent'.outcome = "success"

(* C7: the screen mode is menu, playing or analysis, starts as menu, and   *)
(* changes only: menu to playing on a generated or loaded case, playing to *)
(* analysis on a successful analysis, analysis to playing on Continue,     *)
(* playing or analysis to menu on New Case, and menu to analysis when a    *)
(* successful analysis arrives after New Case.                             *)
C7_ModeMachine ==
    /\ gameState = "menu"
    /\ [][ /\ gameState' \in Modes
           /\ gameState' # gameState => ListedModeChange \/ LateAnalysis ]_vars

(* The analysis view was entered from the menu. *)
C7_Witness ==
    /\ gameState = "analysis"
    /\ lastEvent.op = "analyzeEvidence"
    /\ lastEvent.outcome = "success"
    /\ lastEvent.arg.before[8] = "menu"
    /\ analysis = <<"v">>
    /\ currentCase = CaseStudy
    /\ theory = <<"t", " ">>

(* C7 as worded: the four listed kinds of change are the only ones. *)
C7_AsWorded ==
    /\ gameState = "menu"
    /\ [][ /\ gameState' \in Modes
           /\ gameState' # gameState => ListedModeChange ]_vars

IsBlank(text) == \A i \in DOMAIN text : text[i] = " "

(* C8: questionCharacter called with a question that is empty or white     *)
(* space, or with no active character, sends no request and changes no     *)
(* state.                                                                  *)
C8_NothingToAsk ==
    [][ /\ lastEvent'.op = "questionCharacter"
        /\ Len(requests') >= Len(requests)
        /\ IsBlank(question) \/ activeCharacter = NoCharacter
        => UNCHANGED programState /\ lastAlert' = NoAlert ]_vars

(* The handler ran on a white-space question with a character active. *)
C8_Witness ==
    /\ lastEvent.op = "questionCharacter"
    /\ lastEvent.outcome = "ignored"
    /\ question = <<" ">>
    /\ activeCharacter = LadyGray
    /\ currentCase = CaseStudy
    /\ requests = << >>
    /\ ~loading

(* t is s without the white space at its two ends. *)
IsTrimOf(t, s) ==
    /\ t # << >> => t[1] # " " /\ t[Len(t)] # " "
    /\ \E a \in 0..Len(s) :
          /\ a + Len(t) <= Len(s)
          /\ SubSeq(s, a + 1, a + Len(t)) = t
          /\ IsBlank(SubSeq(s, 1, a))
          /\ IsBlank(SubSeq(s, a + Len(t) + 1, Len(s)))

(* C9: a successful questionCharacter appends one entry, made of the       *)
(* trimmed question and the response text, to the conversation of the      *)
(* character that was active when the question was sent; the entries that  *)
(* conversation had and the other conversations stay, and the question     *)
(* input is cleared.                                                       *)
C9_AppendEntry ==
    [][ Resumes("questionCharacter")
        /\ CarriesObject(lastEvent'.arg.response) =>
          LET request == lastEvent'.arg.request
              data == lastEvent'.arg.response.body.value
              key == request.activeCharacter.id
              earlier == IF key \in DOMAIN conversations
                         THEN conversations[key] ELSE << >>
              entry == conversations'[key][Len(earlier) + 1]
          IN  /\ DOMAIN conversations' = DOMAIN conversations \cup {key}
              /\ Len(conversations'[key]) = Len(earlier) + 1
              /\ SubSeq(conversations'[key], 1, Len(earlier)) = earlier
              /\ IsTrimOf(entry.question, request.question)
              /\ has(data, "response") => entry.response = data.response
              /\ \A k \in DOMAIN conversations \ {key} :
                    conversations'[k] = conversations[k]
              /\ question' = << >> ]_vars

(* The butler was asked, Lady Gray was made active before the answer came, *)
(* and the answer went to the end of the butler's conversation.            *)
C9_Witness ==
    /\ lastEvent.op = "questionCharacter"
    /\ lastEvent.outcome = "success"
    /\ lastEvent.arg.request.activeCharacter = Butler
    /\ lastEvent.arg.request.question = <<" ", "q", " ">>
    /\ activeCharacter = LadyGray
    /\ DOMAIN conversations = {"butler"}
    /\ Len(conversations["butler"]) = 2
    /\ conversations["butler"][1] = PriorSaveB.conversations["butler"][1]
    /\ conversations["butler"][2].question = <<"q">>
    /\ conversations["butler"][2].response = <<"r">>
    /\ question = << >>

(* The new_characters_discovered list of a response. *)
DiscoveriesOf(response) ==
    IF has(response.body.value, "new_characters_discovered")
    THEN response.body.value.new_characters_discovered
    ELSE << >>

(* A successful response adds `added` to the end of the character list and *)
(* one notification for each of them to the end of the queue.              *)
Discovers(added) ==
    LET n == Len(added)
        before == Len(newCharacterNotifications)
    IN  /\ Len(currentCase'.characters) = Len(currentCase.characters) + n
        /\ Len(newCharacterNotifications') = before + n
        /\ currentCase'.characters = currentCase.characters \o added
        /\ SubSeq(newCharacterNotifications', 1, before) = newCharacterNotifications
        /\ \A i \in 1..n :
              /\ newCharacterNotifications'[before + i].character = added[i]
              /\ newCharacterNotifications'[before + i].age = 0

(* A character notification leaves the queue only by its dismiss button or *)
(* by its timer, ten seconds after it was added, and none stays longer.    *)
ExpiresOrDismissed ==
    /\ \A n \in Range(newCharacterNotifications') : n.age <= CharacterDismissDelay
    /\ \A n \in Range(newCharacterNotifications) :
          n.id \notin idsOf(newCharacterNotifications') =>
             \/ lastEvent'.op = "onDismissCharacter" /\ lastEvent'.arg = n.id
             \/ lastEvent'.op = "timer" /\ n.age = CharacterDismissDelay

(* C10: of the n entries of new_characters_discovered in a successful      *)
(* response, each entry that carries a character adds that character to    *)
(* the end of the case's character list, in response order and without     *)
(* deduplication, and adds one notification; a notification disappears 10  *)
(* seconds later unless it is dismissed first.                             *)
C10_Discoveries ==
    [][ /\ Resumes("questionCharacter")
           /\ CarriesObject(lastEvent'.arg.response) =>
              LET carrying == SelectSeq(DiscoveriesOf(lastEvent'.arg.response),
                                        LAMBDA d : has(d, "character"))
              IN  Discovers([ i \in 1..Len(carrying) |-> carrying[i].character ])
        /\ ExpiresOrDismissed ]_vars

(* The gardener, named twice in one response, was added twice, and the two *)
(* notifications have gone with their timer.                               *)
C10_Witness ==
    /\ lastEvent.op = "timer"
    /\ lastEvent.arg.queue = "character"
    /\ Cardinality(lastEvent.arg.ids) = 2
    /\ newCharacterNotifications = << >>
    /\ currentCase.characters = << Maid, Gardener, Gardener >>

(* C10 as worded: every one of the n entries adds a character and a        *)
(* notification.                                                           *)
C10_AsWorded ==
    [][ /\ Resumes("questionCharacter")
           /\ CarriesObject(lastEvent'.arg.response) =>
              LET entries == DiscoveriesOf(lastEvent'.arg.response)
              IN  /\ Len(currentCase'.characters) =
                        Len(currentCase.characters) + Len(entries)
                  /\ Len(newCharacterNotifications') =
                        Len(newCharacterNotifications) + Len(entries)
        /\ ExpiresOrDismissed ]_vars

(* The visual_scene_generated of a response, as a list of none or one. *)
ScenesOf(response) ==
    IF has(response.body.value, "visual_scene_generated")
    THEN << response.body.value.visual_scene_generated >>
    ELSE << >>

(* A successful response adds `scenes` to the end of the scene list and    *)
(* one notification for each of them to the end of the queue.              *)
ShowsScenes(scenes) ==
    LET n == Len(scenes)
        before == Len(visualSceneNotifications)
    IN  /\ currentCase'.visual_scenes = currentCase.visual_scenes \o scenes
        /\ Len(visualSceneNotifications') = before + n
        /\ SubSeq(visualSceneNotifications', 1, before) = visualSceneNotifications
        /\ \A i \in 1..n :
              /\ visualSceneNotifications'[before + i].scene = scenes[i]
              /\ visualSceneNotifications'[before + i].age = 0

(* A scene notification leaves the queue only by its dismiss button or by  *)
(* its timer, eight seconds after it was added, and none stays longer.     *)
SceneExpiresOrDismissed ==
    /\ \A n \in Range(visualSceneNotifications') : n.age <= 8000
    /\ \A n \in Range(visualSceneNotifications) :
          n.id \notin idsOf(visualSceneNotifications') =>
             \/ lastEvent'.op = "onDismissVisual" /\ lastEvent'.arg = n.id
             \/ lastEvent'.op = "timer" /\ n.age = 8000

(* C11: the scene of a successful questionCharacter response goes to the   *)
(* end of the case's scene list with exactly one scene notification, which *)
(* stays in the queue until 8 seconds after it was added unless it is      *)
(* dismissed; each notification has its own 8 seconds, so of two added one *)
(* second apart the second outlasts the first by one second.               *)
C11_Scenes ==
    [][ /\ Resumes("questionCharacter")
           /\ CarriesObject(lastEvent'.arg.response) =>
              ShowsScenes(ScenesOf(lastEvent'.arg.response))
        /\ SceneExpiresOrDismissed ]_vars

(* Of two scene notifications added one second apart, the first has just   *)
(* expired and the second, seven seconds old, is still shown.              *)
C11_Witness ==
    /\ lastEvent.op = "timer"
    /\ lastEvent.arg.queue = "scene"
    /\ Len(visualSceneNotifications) = 1
    /\ visualSceneNotifications[1].age = 7000
    /\ visualSceneNotifications[1].id \notin lastEvent.arg.ids
    /\ currentCase.visual_scenes = << SceneLibrary, SceneLibrary >>

(* The queue with the notification of this id taken out. *)
Dismissed(queue, id) == SelectSeq(queue, LAMBDA n : n.id # id)

(* C12: dismissing a notification removes exactly that one at once and     *)
(* leaves all others of both kinds in place and in order; when the timer   *)
(* of a notification that was already dismissed fires later, both queues   *)
(* stay as they are.                                                       *)
C12_Dismiss ==
    [][ /\ lastEvent'.op = "onDismissCharacter" =>
              /\ newCharacterNotifications' =
                    Dismissed(newCharacterNotifications, lastEvent'.arg)
              /\ visualSceneNotifications' = visualSceneNotifications
        /\ lastEvent'.op = "onDismissVisual" =>
              /\ visualSceneNotifications' =
                    Dismissed(visualSceneNotifications, lastEvent'.arg)
              /\ newCharacterNotifications' = newCharacterNotifications
        /\ lastEvent'.op = "timer" =>
              /\ lastEvent'.arg.ids \cap idsOf(newCharacterNotifications) = {}
                    => newCharacterNotifications' = newCharacterNotifications
              /\ lastEvent'.arg.ids \cap idsOf(visualSceneNotifications) = {}
                    => visualSceneNotifications' = visualSceneNotifications
      ]_vars

(* The timer of a dismissed notification has fired while notifications of  *)
(* both kinds were shown.                                                  *)
C12_Witness ==
    /\ lastEvent.op = "timer"
    /\ lastEvent.outcome = "nothing left"
    /\ newCharacterNotifications # << >>
    /\ visualSceneNotifications # << >>

(* C13: analyzeEvidence called with a theory that is empty or white space, *)
(* or with no evidence selected, sends no request, reports the validation  *)
(* failure and leaves the analysis text and the screen mode as they were.  *)
C13_NothingToAnalyze ==
    [][ /\ lastEvent'.op = "analyzeEvidence"
        /\ Len(requests') >= Len(requests)
        /\ IsBlank(theory) \/ selectedEvidence = << >>
        => /\ requests' = requests
           /\ lastAlert' =
                 <<"Please select evidence and provide a theory to analyze.">>
           /\ analysis' = analysis
           /\ gameState' = gameState ]_vars

(* The handler ran on a white-space theory with evidence selected, on the  *)
(* analysis screen of an earlier analysis.                                 *)
C13_Witness ==
    /\ lastEvent.op = "analyzeEvidence"
    /\ lastEvent.outcome = "invalid"
    /\ theory = <<" ">>
    /\ selectedEvidence # << >>
    /\ analysis = <<"v">>
    /\ gameState = "analysis"
    /\ requests = << >>

(* The response is no 2xx one, or its body is no JSON value or is null. *)
AnalysisFails(response) ==
    \/ response.kind = "network_error"
    \/ ~response.ok
    \/ response.body.json \in {"invalid", "null"}

AppendsSnapshot(saveName) ==
    LET n == Len(savedGames)
        record == savedGames'[n + 1]
    IN  /\ Len(savedGames') = n + 1
        /\ SubSeq(savedGames', 1, n) = savedGames
        /\ PersistedList' = savedGames'
        /\ record.currentCase = currentCase
        /\ record.sessionId = sessionId
        /\ record.conversations = conversations
        /\ record.investigationNotes = investigationNotes
        /\ record.selectedEvidence = selectedEvidence
        /\ record.theory = theory
        /\ record.analysis = analysis
        /\ record.gameState = gameState
        /\ record.name = IF saveName = << >>
                         THEN <<"Case: ", currentCase.title>>
                         ELSE saveName

FieldOr(record, key, defaultValue) ==
    IF key \in DOMAIN record THEN record[key] ELSE defaultValue

(* C16: loadGame replaces the case, session id, conversations, notes,      *)
(* selection, theory, analysis and screen mode with the record's fields,   *)
(* and for a record without an optional field takes: no conversations,     *)
(* empty notes, theory and analysis, an empty selection, mode "playing".   *)
C16_Load ==
    [][ lastEvent'.op = "loadGame" =>
          LET record == lastEvent'.arg.record
          IN  /\ currentCase' = record.currentCase
              /\ sessionId' = record.sessionId
              /\ conversations' = FieldOr(record, "conversations", EmptyMap)
              /\ investigationNotes' = FieldOr(record, "investigationNotes", << >>)
              /\ selectedEvidence' = FieldOr(record, "selectedEvidence", << >>)
              /\ theory' = FieldOr(record, "theory", << >>)
              /\ analysis' = FieldOr(record, "analysis", << >>)
              /\ gameState' = FieldOr(record, "gameState", "playing") ]_vars

(* The record without optional fields was loaded over an investigation    *)
(* with a conversation, notes, a selection and an analysis.                *)
C16_Witness ==
    /\ lastEvent.op = "loadGame"
    /\ lastEvent.arg.record = BareSave
    /\ lastEvent.arg.before[3] # EmptyMap
    /\ lastEvent.arg.before[4] = <<"n">>
    /\ lastEvent.arg.before[5] # << >>
    /\ lastEvent.arg.before[7] = <<"v">>
    /\ currentCase = CaseManor
    /\ conversations = EmptyMap
    /\ selectedEvidence = << >>
    /\ investigationNotes = << >>
    /\ analysis = << >>
    /\ gameState = "playing"

(* C17: when the write to storage fails in saveGame or in deleteSave, the  *)
(* in-memory save list is not updated, so that it still is the list last   *)
(* written to storage, and the failure is reported to the user.            *)
C17_WriteFailure ==
    [][ /\ lastEvent'.op \in {"saveGame", "deleteSave"}
        /\ lastEvent'.outcome = "write_failed"
        => /\ savedGames' = savedGames
           /\ localStorage' = localStorage
           /\ savedGames' = PersistedList'
           /\ lastAlert' \in { <<"Failed to save game. Please try again.">>,
                               <<"Failed to delete save. Please try again.">> }
      ]_vars

(* After a save of this run was written, the write of a confirmed delete   *)
(* failed: the three records are still listed and stored.                  *)
C17_Witness ==
    /\ lastEvent.op = "deleteSave"
    /\ lastEvent.outcome = "write_failed"
    /\ Len(savedGames) = 3
    /\ savedGames[3].currentCase = CaseStudy
    /\ PersistedList = savedGames
    /\ lastAlert = <<"Failed to delete save. Please try again.">>

(* The armed timers of one kind. *)
Armed(kind) == { timers[i] : i \in { j \in DOMAIN timers : timers[j].queue = kind } }

(* The case is an active one without a crime-scene image. *)
AwaitsImage(case) ==
    /\ "id" \in DOMAIN case /\ case.id # Null
    /\ case.crime_scene_image_url = Null

(* The interval of the effect has started a poll in this step. *)
AutoPollStarts ==
    /\ lastEvent'.op = "refreshCaseData"
    /\ lastEvent'.outcome = "sent"
    /\ lastEvent'.arg.automatic

PollCompletes ==
    /\ Resumes("refreshCaseData")
    /\ CarriesObject(lastEvent'.arg.response)
    /\ has(lastEvent'.arg.response.body.value, "case")

(* Nothing but the image and the scene list of the case changes. *)
OnlyImageAndScenes ==
    /\ DOMAIN currentCase' = DOMAIN currentCase
    /\ \A k \in DOMAIN currentCase \ {"crime_scene_image_url", "visual_scenes"} :
          currentCase'[k] = currentCase[k]
    /\ UNCHANGED << sessionId, conversations, investigationNotes,
                    selectedEvidence, theory, analysis, gameState >>

PollFails(response) ==
    \/ response.kind = "network_error"
    \/ ~response.ok
    \/ response.body.json \in {"invalid", "null"}
    \/ response.body.json = "object" /\ ~has(response.body.value, "case")

(* C20: a poll that fails changes no controller state, shows nothing to    *)
(* the user and leaves the schedule as it is: the interval stays armed and *)
(* comes due when it would have.                                           *)
C20_PollFailure ==
    [][ Resumes("refreshCaseData") /\ PollFails(lastEvent'.arg.response) =>
          /\ UNCHANGED controllerState
          /\ lastAlert' = NoAlert
          /\ UNCHANGED << loading, showSaveLoad, newCharacterNotifications,
                          visualSceneNotifications >>
          /\ timers' = timers ]_vars

(* An automatic poll was answered with a body without a case, 15 seconds   *)
(* into the polling; the interval is still armed and due in 5 seconds.     *)
C20_Witness ==
    /\ lastEvent.op = "refreshCaseData"
    /\ lastEvent.outcome = "failed"
    /\ lastEvent.arg.request.automatic
    /\ lastEvent.arg.response = FetchedNoCase
    /\ \E timer \in Armed("interval") : timer.remaining = 5000
    /\ \E stop \in Armed("timeout") : stop.remaining = 105000
    /\ currentCase = CaseStudy

(* How many timers of one kind are armed. *)
ArmedCount(kind) ==
    Cardinality({ i \in DOMAIN timers : timers[i].queue = kind })

(* The identifier or the image of the case is another one after the step. *)
PollingConditionChanges ==
    \/ currentCase'.id # currentCase.id
    \/ /\ "crime_scene_image_url" \in DOMAIN currentCase
       /\ currentCase'.crime_scene_image_url # currentCase.crime_scene_image_url

(* C21: the polling timers do not leak.  At most one interval and at most  *)
(* one stop timeout are armed at any time, and when the case identifier    *)
(* changes or the case gains its image, the interval and the timeout of    *)
(* the previous case are gone: what is armed afterwards, if anything, is    *)
(* the fresh pair of the new case.                                         *)
C21_NoLeak ==
    [][ /\ ArmedCount("interval")' <= 1
        /\ ArmedCount("timeout")' <= 1
        /\ PollingConditionChanges =>
              IF currentCase'.crime_scene_image_url # Null
              THEN Armed("interval")' = {} /\ Armed("timeout")' = {}
              ELSE /\ \A timer \in Armed("interval")' :
                         timer.remaining = 10000 /\ timer.closure = currentCase'
                   /\ \A stop \in Armed("timeout")' : stop.remaining = 120000
      ]_vars

(* A save of the case with an image was loaded while the case without one  *)
(* was polled and a poll was in flight: no polling timer is left.          *)
C21_Witness ==
    /\ lastEvent.op = "loadGame"
    /\ lastEvent.arg.before[1].id = "c1"
    /\ lastEvent.arg.before[1].crime_scene_image_url = Null
    /\ currentCase = CaseManor
    /\ timers = << >>
    /\ requests # << >>

(* The identifiers of the characters of the current case. *)
CharacterIds ==
    IF "characters" \in DOMAIN currentCase
    THEN { currentCase.characters[i].id : i \in DOMAIN currentCase.characters }
    ELSE {}

(* C22: in every reachable state every key of the conversation map is the  *)
(* identifier of a character of the current case, also after a case was    *)
(* generated or loaded while a question for the previous case was in       *)
(* flight.                                                                 *)
C22_ConversationKeys == DOMAIN conversations \subseteq CharacterIds

(* The identifiers of the evidence of the current case. *)
EvidenceIdsOfCase ==
    IF "evidence" \in DOMAIN currentCase
    THEN { currentCase.evidence[i].id : i \in DOMAIN currentCase.evidence }
    ELSE {}

(* C23: in every reachable state every selected identifier is the          *)
(* identifier of an evidence item of the current case, whatever the order  *)
(* of toggles, generated cases, saves and loads, polls and late answers.   *)
C23_SelectionInCase == Range(selectedEvidence) \subseteq EvidenceIdsOfCase

(* The answer to a poll for one case arrived after a save of the other     *)
(* case was loaded with its selection.                                     *)
C23_Witness ==
    /\ lastEvent.op = "refreshCaseData"
    /\ lastEvent.outcome = "completed"
    /\ lastEvent.arg.request.case_id = "c1"
    /\ currentCase.id = "c2"
    /\ selectedEvidence = <<"e3">>
    /\ lastEvent.arg.before[5] = <<"e3">>

(* C24: in every reachable state no two entries of the character list of   *)
(* the current case have the same identifier (the generated cases start    *)
(* with distinct ones).                                                    *)
C24_UniqueCharacters ==
    "characters" \in DOMAIN currentCase =>
        \A i, j \in DOMAIN currentCase.characters :
            currentCase.characters[i].id = currentCase.characters[j].id => i = j

(* The answer to a question or to an analysis request is a failure. *)
RequestFails ==
    \/ Resumes("questionCharacter") /\ ~CarriesObject(lastEvent'.arg.response)
    \/ Resumes("analyzeEvidence") /\ AnalysisFails(lastEvent'.arg.response)

QuestionAlert(message) == <<"Failed to question character: ">> \o message

(* C26: handleApiResponse returns a value only for a 2xx response whose    *)
(* parsed body is a non-null object.  For a response that is not 2xx it    *)
(* raises one error whose message is the text of the body when that is not *)
(* empty and "HTTP <status>: <statusText>" otherwise; for a 2xx response    *)
(* with a null body or one that is no object it raises an error.  Seen     *)
(* through questionCharacter, which continues with the value or shows the  *)
(* message of the error.                                                   *)
C26_HandleApiResponse ==
    [][ Resumes("questionCharacter") /\ lastEvent'.arg.response.kind = "http" =>
          LET response == lastEvent'.arg.response
          IN  /\ lastEvent'.outcome = "success" <=> CarriesObject(response)
              /\ ~response.ok =>
                    lastAlert' = QuestionAlert(
                        IF response.text # << >> THEN response.text
                        ELSE <<"HTTP ", response.status, ": ", response.statusText>>)
              /\ response.ok /\ response.body.json \in {"null", "scalar"} =>
                    /\ lastEvent'.outcome = "failure"
                    /\ lastAlert' =
                          QuestionAlert(<<"Invalid response format from server">>)
      ]_vars

(* A non-2xx answer with an empty body was reported with its status line. *)
C26_Witness ==
    /\ lastEvent.op = "questionCharacter"
    /\ lastEvent.outcome = "failure"
    /\ lastEvent.arg.response = HttpError(<< >>)
    /\ lastAlert = <<"Failed to question character: ", "HTTP ", "500", ": ",
                     "Internal Server Error">>

(* C27: once the mount effect has loaded the saves, the save list in       *)
(* memory and the list in storage are equal, an absent item counting as    *)
(* the empty list: after every saveGame and deleteSave, whether it wrote,  *)
(* failed to write or was declined, and after every other step as well.    *)
C27_ListIsPersisted ==
    mounted => savedGames = PersistedList

(* With nothing stored, the write of a save failed: the list in memory is  *)
(* still empty and there is still no item in storage.                      *)
C27_Witness ==
    /\ mounted
    /\ lastEvent.op = "saveGame"
    /\ lastEvent.outcome = "write_failed"
    /\ ~localStorage.present
    /\ savedGames = << >>

(* C28: while the id of the case stays the same, the scene list of the     *)
(* case loses no entry: every scene that is in the list before a step is   *)
(* in the list after it, also when the step merges the result of a poll    *)
(* that was sent before the scene was appended or that fetched a shorter   *)
(* list.                                                                   *)
C28_ScenesAppendOnly ==
    [][ currentCase # NoCase /\ currentCase'.id = currentCase.id =>
          \A i \in DOMAIN scenesOf(currentCase) :
              \E j \in DOMAIN scenesOf(currentCase') :
                  scenesOf(currentCase')[j] = scenesOf(currentCase)[i] ]_vars

(* C29: the answer to a poll is merged only into the case it was fetched   *)
(* for: when the case of the moment has another id than the case the poll  *)
(* was sent for, because a case was generated or loaded in between, its    *)
(* crime-scene image and its scene list stay as they are.                  *)
C29_PollMergedIntoItsCase ==
    [][ /\ Resumes("refreshCaseData")
        /\ lastEvent'.arg.request.case_id # currentCase.id
        => /\ safeGet(currentCase', "crime_scene_image_url", Null) =
                 safeGet(currentCase, "crime_scene_image_url", Null)
           /\ scenesOf(currentCase') = scenesOf(currentCase) ]_vars

(* The answer to a request of one of the three handlers has arrived. *)
HandlerSettles ==
    \/ Resumes("generateNewCase")
    \/ Resumes("questionCharacter")
    \/ Resumes("analyzeEvidence")

(* C30: the loading flag is true only while a request of generateNewCase,  *)
(* questionCharacter or analyzeEvidence is in flight; when the response or *)
(* the error of such a request arrives, the handler sets the flag to       *)
(* false, on the success path and on every failure path; so a flag that is *)
(* true is false again later, given that every fetch settles.              *)
C30_LoadingSettles ==
    /\ [](loading => inFlight(FALSE) > 0)
    /\ [][HandlerSettles => ~loading']_vars
    /\ (loading ~> ~loading)

(* The request of generateNewCase was answered with a status that is not   *)
(* 2xx: the error was shown and the flag is false again.                   *)
C30_Witness ==
    /\ lastEvent.op = "generateNewCase"
    /\ lastEvent.outcome # "sent"
    /\ lastEvent.arg.response = HttpError(<<"backend down">>)
    /\ lastAlert = <<"Failed to generate new case: ", "backend down">>
    /\ ~loading
    /\ requests = << >>

====
